---- MODULE Spec2Model ----
(***************************************************************************)
(* The agent orchestration core of nanobot: AgentLoop.run, _process_message,*)
(* _run_agent_loop with loop detection and tool forcing, and the background *)
(* memory consolidator (_consolidate_memory) working on the session store.  *)
(*                                                                          *)
(* Python strings are TLA+ strings.  The string functions the code applies  *)
(* (strip, lower, the "in" substring test, the <think> regex) are computed  *)
(* on the word lists of the finitely many inputs the model draws.           *)
(***************************************************************************)
EXTENDS Integers, Sequences, FiniteSets, TLC

\* ---------------------------------------------------------------- bounds
\* Tool calls the provider may emit in one behaviour, over all its responses.
MaxToolCalls == 4
\* Session-tool calls the provider may emit in one behaviour of the consolidation scenarios.
MaxClears == 1
\* Tool calls carried by one provider response.
MaxCallsPerResponse == 3
\* Inbound messages queued on the bus in the consolidation scenarios.
MaxInbound == 2
\* AgentLoop(memory_window=...): 50 by default, scaled down.
memory_window == 2

\* ------------------------------------------------------ program constants
max_iterations == 20
loop_detection_max == 3
forced_max_retries == 5
unforced_max_retries == 1

None == "<None>"

\* ------------------------------------------------------------ text model
\* The inbound contents the model draws.
HELLO == "hello"
LIST_TMP == "list /tmp"
GEN_AN_IMAGE == "please generate an image of a cat"
GEN_IMAGE == "please generate image of a cat"
SEARCH_CATS == "search cats"
CLEAR_SESSION == "clear session now"
SLASH_NEW == "/new"
SLASH_NEW_PADDED == " /NEW "
SLASH_HELP == "/help"
SUBAGENT_DONE == "subagent result"

\* str.strip() on the contents above.
Strip(s) ==
    CASE s = " /NEW " -> "/NEW"
      [] OTHER -> s

\* str.lower() on the contents above.
Lower(s) ==
    CASE s = " /NEW " -> " /new "
      [] s = "/NEW" -> "/new"
      [] OTHER -> s

\* The words of a content, in order (its characters between single spaces).
Words(s) ==
    CASE s = "hello" -> <<"hello">>
      [] s = "list /tmp" -> <<"list", "/tmp">>
      [] s = "please generate an image of a cat" ->
            <<"please", "generate", "an", "image", "of", "a", "cat">>
      [] s = "please generate image of a cat" ->
            <<"please", "generate", "image", "of", "a", "cat">>
      [] s = "search cats" -> <<"search", "cats">>
      [] s = "clear session now" -> <<"clear", "session", "now">>
      [] s = "subagent result" -> <<"subagent", "result">>
      [] s = "/new" -> <<"/new">>
      [] s = " /new " -> <<"/new">>
      [] s = "/NEW" -> <<"/NEW">>
      [] s = " /NEW " -> <<"/NEW">>
      [] s = "/help" -> <<"/help">>
      [] OTHER -> <<s>>

\* len(s) of the contents above.
CharLen(s) ==
    CASE s = "please generate an image of a cat" -> 33
      [] s = "please generate image of a cat" -> 30
      [] OTHER -> 20

\* kw in s, for a keyword given as its words: the keyword's words occur as
\* consecutive words of s (none of the contents holds a keyword inside a word).
ContainsKw(s, kw) ==
    LET w == Words(s) IN
    \E i \in 1..Len(w) :
        /\ i + Len(kw) - 1 <= Len(w)
        /\ \A j \in 1..Len(kw) : w[i + j - 1] = kw[j]

\* The keyword lists of _run_agent_loop; a Chinese keyword is the one word zh:<pinyin>.
browser_keywords ==
    { <<"zh:dakai">>, <<"open">>, <<"navigate">>, <<"zh:liulan">>, <<"search">>,
      <<"zh:sousuo">>, <<"zh:sou">>, <<"website">> }
cron_keywords ==
    { <<"zh:dingshi">>, <<"cron">>, <<"reminder">>, <<"zh:tixing">>, <<"schedule">>,
      <<"zh:yuyue">> }
image_keywords ==
    { <<"zh:hua">>, <<"zh:shengchengtuxiang">>, <<"generate", "image">>,
      <<"zh:shengchengtupian">>, <<"zh:huatu">>, <<"draw">>, <<"create", "image">>,
      <<"zh:shengchengyizhi">>, <<"zh:huayizhi">>, <<"zh:shengchengyizhang">>,
      <<"zh:huayizhang">> }
session_keywords ==
    { <<"clear", "session">>, <<"zh:qingchuhuihua">>, <<"reset", "session">>,
      <<"zh:xinjianhuihua">>, <<"clear", "memory">>, <<"zh:qingchujiyi">>, <<"forget">> }
plan_keywords ==
    { <<"zh:chayixia">>, <<"zh:kankan">>, <<"zh:zhaozhao">>, <<"zh:fenxi">>,
      <<"zh:bangwo">>, <<"zh:bangwocha">>, <<"zh:bangwozhao">>,
      <<"check">>, <<"find">>, <<"search">>, <<"analyze">>, <<"look", "up">>,
      <<"research">> }

browser_forced(user_message) == \E kw \in browser_keywords : ContainsKw(Lower(user_message), kw)
cron_forced(user_message) == \E kw \in cron_keywords : ContainsKw(Lower(user_message), kw)
image_forced(user_message) == \E kw \in image_keywords : ContainsKw(Lower(user_message), kw)
session_forced(user_message) == \E kw \in session_keywords : ContainsKw(Lower(user_message), kw)

\* forced = browser_forced or cron_forced or image_forced or session_forced
IsForced(user_message) ==
    \/ browser_forced(user_message)
    \/ cron_forced(user_message)
    \/ image_forced(user_message)
    \/ session_forced(user_message)

is_complex_task(user_message) ==
    \/ CharLen(user_message) > 200
    \/ \E kw \in plan_keywords : ContainsKw(user_message, kw)

\* The provider's response contents.
TEXT_HI == "hi"
TEXT_CAT == "Sure, here is a cat description"
TEXT_FILES == "Files: a, b"
TEXT_THINK_ONLY == "<think>plan</think>"
TEXT_THINK_HI == "<think>plan</think> hi"
TEXT_EMPTY == ""

\* AgentLoop._strip_think: None for None or "", else the text without its
\* <think>...</think> blocks, stripped, or None when nothing is left.
strip_think(text) ==
    CASE text = None -> None
      [] text = "" -> None
      [] text = "<think>plan</think>" -> None
      [] text = "<think>plan</think> hi" -> "hi"
      [] OTHER -> text

\* ------------------------------------------------------------ tool calls
\* ToolCall.arguments is a dict: its items in insertion order, as <<key, value>>.
\* The alphabetical rank of the argument keys the model uses.
KeyRank(k) ==
    CASE k = "action" -> 1
      [] k = "content" -> 2
      [] k = "key" -> 3
      [] k = "lang" -> 4
      [] k = "n" -> 5
      [] k = "path" -> 6
      [] k = "q" -> 7
      [] OTHER -> 8

RECURSIVE InsertByKey(_, _)
InsertByKey(item, sorted) ==
    IF sorted = <<>> THEN <<item>>
    ELSE IF KeyRank(item[1]) <= KeyRank(Head(sorted)[1]) THEN <<item>> \o sorted
    ELSE <<Head(sorted)>> \o InsertByKey(item, Tail(sorted))

RECURSIVE SortItems(_)
SortItems(items) ==
    IF items = <<>> THEN <<>> ELSE InsertByKey(Head(items), SortItems(Tail(items)))

\* json.dumps(args, ensure_ascii=False): the items as they stand.
json_dumps(args) == args
\* A dump that keeps the order in which the keys were given.
json_dumps_as_given(args) == args
\* json.dumps(args, sort_keys=True, ensure_ascii=False): the items sorted by key.
json_dumps_sorted(args) == SortItems(args)

WEB_SEARCH == [name |-> "web_search", arguments |-> << <<"q", "x">>, <<"n", "1">> >>]
WEB_SEARCH_PERMUTED == [name |-> "web_search", arguments |-> << <<"n", "1">>, <<"q", "x">> >>]
LIST_DIR == [name |-> "list_dir", arguments |-> << <<"path", "/tmp">> >>]
SEND_MESSAGE == [name |-> "message", arguments |-> << <<"content", "hey">> >>]
SESSION_CLEAR == [name |-> "session", arguments |-> << <<"action", "clear">>, <<"key", "cli:u1">> >>]
SESSION_DELETE == [name |-> "session", arguments |-> << <<"action", "delete">>, <<"key", "cli:u1">> >>]

ToolNames == {"web_search", "list_dir", "message", "session"}

\* The tool calls and texts the provider draws from in the iteration-loop scenarios
\* and in the consolidation scenarios.
LoopToolCalls == {WEB_SEARCH, WEB_SEARCH_PERMUTED, LIST_DIR}
LoopTexts == {TEXT_HI, TEXT_CAT, TEXT_FILES, TEXT_EMPTY, TEXT_THINK_ONLY, TEXT_THINK_HI}
MemToolCalls == {SESSION_CLEAR}
MemTexts == {TEXT_HI}

\* All sequences over S of length 1..n.
SeqsUpTo(S, n) == UNION { [1..k -> S] : k \in 1..n }

\* The call key of _track_tool_call: (tool_name, args_str).
call_key(tool_name, args) == <<tool_name, json_dumps_sorted(args)>>

\* _track_tool_call keyed on the arguments as the provider ordered them.
track_tool_call_unsorted(h, tool_name, args) ==
    LET key == <<tool_name, json_dumps(args)>>
        h2 == IF h # <<>> /\ h[Len(h)] = key THEN Append(h, key) ELSE <<key>>
    IN [history |-> h2,
        detected |-> /\ Len(h2) >= loop_detection_max
                     /\ \A i \in 1..Len(h2) : h2[i] = h2[1]]

\* AgentLoop._track_tool_call on history h: the new history and the verdict.
track_tool_call(h, tool_name, args) ==
    LET key == call_key(tool_name, args)
        h2 == IF h # <<>> /\ h[Len(h)] = key THEN Append(h, key) ELSE <<key>>
    IN [history |-> h2,
        detected |-> /\ Len(h2) >= loop_detection_max
                     /\ \A i \in 1..Len(h2) : h2[i] = h2[1]]

loop_message(tool_name) ==
    "[LOOP DETECTED] Detected 3 consecutive identical tool calls: " \o tool_name
        \o " with identical arguments. Stopping to prevent infinite loop. Please try a different approach."

\* "LOOP DETECTED" in text, for the texts final_content takes.
ContainsLoopDetected(text) == \E n \in ToolNames : text = loop_message(n)

\* The failure indicators of the result verification, on the tools' results.
RESULT_FILES == "a\nb"
RESULT_NOT_FOUND == "Error: not found"
RESULT_SEARCH == "results for x"
RESULT_SENT == "Message sent to cli:u1"
RESULT_CLEARED == "[VERIFIED] Cleared session: cli:u1"
RESULT_DELETED == "[VERIFIED] Deleted session: cli:u1"
RESULT_NO_SESSION == "Session not found: cli:u1"

\* any(indicator in result_lower ...): of the results above only "Error: not found"
\* and "Session not found: ..." hold an indicator ("error", "not found").
is_failure(result) == result \in {RESULT_NOT_FOUND, RESULT_NO_SESSION}

failure_hint(result) ==
    "\n\n[TOOL RESULT VERIFICATION] The tool returned an error/failure: " \o result
        \o ". You MUST either: (1) Try a different approach, or (2) Admit the failure to the user. Do NOT pretend the tool succeeded!"

\* ----------------------------------------------------------------- state
VARIABLES
    inbound,            \* MessageBus.inbound: the queued InboundMessages
    outbound,           \* MessageBus.outbound: every OutboundMessage published, in order
    objs,               \* the Session objects ever created, by object id: [key, messages, last_consolidated]
    cache,              \* SessionManager._cache: session key -> object id, 0 when absent
    disk,               \* the session files: session key -> [exists, messages, last_consolidated]
    memory_md,          \* memory/MEMORY.md
    history_md,         \* memory/HISTORY.md: the entries appended
    consolidating,      \* AgentLoop._consolidating
    tasks,              \* the consolidation tasks created with asyncio.create_task
    tool_call_history,  \* AgentLoop._tool_call_history
    sent_in_turn,       \* MessageTool._sent_in_turn
    pc,                 \* where run() stands: idle, llm (awaiting provider.chat), got, tool (awaiting tools.execute)
    msg,                \* run(): the InboundMessage being processed
    sess,               \* _process_message: session (an object id)
    on_progress,        \* _run_agent_loop: on_progress ("bus" for _bus_progress, "none")
    messages,           \* _run_agent_loop: messages
    iteration,          \* _run_agent_loop: iteration
    final_content,      \* _run_agent_loop: final_content
    tools_used,         \* _run_agent_loop: tools_used
    forced,             \* _run_agent_loop: forced
    response,           \* _run_agent_loop: response, once provider.chat has returned
    tc_idx,             \* _run_agent_loop: the position of tool_call in response.tool_calls
    llm_calls,          \* provider.chat calls made by the iteration loop of the turn
    calls,              \* the tool calls of the turn passed to _track_tool_call, in order
    executed,           \* tools.execute calls made in the turn
    provider,           \* what the provider may still answer: [tools, texts, tool_texts, budget]
    direct,             \* process_direct: the caller's frame of _process_message, the calls
                        \* still to be made (todo) and what the calls returned (returned)
    browser,            \* BrowserTool: its Playwright client (client, ref_map) and the
                        \* last execute call with what it returned (last, <<>> before it)
    discord,            \* DiscordChannel: the frames of _split_message, send and
                        \* _send_payload, and what was posted to the REST API
    agent               \* AgentLoop: _running, the _mcp_* fields and where run() and the
                        \* callers of _connect_mcp stand

vars == <<inbound, outbound, objs, cache, disk, memory_md, history_md, consolidating, tasks,
          tool_call_history, sent_in_turn, pc, msg, sess, on_progress, messages, iteration,
          final_content, tools_used, forced, response, tc_idx, llm_calls, calls, executed,
          provider, direct, browser, discord, agent>>

\* The variables a step of run() may change, as one record.
Cur ==
    [outbound |-> outbound, objs |-> objs, cache |-> cache, disk |-> disk,
     consolidating |-> consolidating, tasks |-> tasks,
     tool_call_history |-> tool_call_history, sent_in_turn |-> sent_in_turn,
     pc |-> pc, msg |-> msg, sess |-> sess, on_progress |-> on_progress,
     messages |-> messages, iteration |-> iteration, final_content |-> final_content,
     tools_used |-> tools_used, forced |-> forced, response |-> response, tc_idx |-> tc_idx,
     llm_calls |-> llm_calls, calls |-> calls, executed |-> executed, direct |-> direct,
     browser |-> browser, discord |-> discord, agent |-> agent]

Becomes(s) ==
    /\ outbound' = s.outbound /\ objs' = s.objs /\ cache' = s.cache /\ disk' = s.disk
    /\ consolidating' = s.consolidating /\ tasks' = s.tasks
    /\ tool_call_history' = s.tool_call_history /\ sent_in_turn' = s.sent_in_turn
    /\ pc' = s.pc /\ msg' = s.msg /\ sess' = s.sess /\ on_progress' = s.on_progress
    /\ messages' = s.messages /\ iteration' = s.iteration
    /\ final_content' = s.final_content /\ tools_used' = s.tools_used
    /\ forced' = s.forced /\ response' = s.response /\ tc_idx' = s.tc_idx
    /\ llm_calls' = s.llm_calls /\ calls' = s.calls /\ executed' = s.executed
    /\ direct' = s.direct /\ browser' = s.browser
    /\ discord' = s.discord /\ agent' = s.agent

Keys == {"cli:u1"}

NoMsg ==
    [channel |-> None, sender_id |-> None, chat_id |-> None, content |-> None, metadata |-> {},
     media |-> <<>>]
NoResponse == [content |-> None, tool_calls |-> <<>>]
NoFile == [exists |-> FALSE, messages |-> <<>>, last_consolidated |-> 0]

\* BrowserTool.__init__: no client yet, no execute call made.
\* scroll_y is the page's vertical scroll position; retry is the frame of
\* click_with_retry: the position of each click_by_ref attempt (seen) and result,
\* <<>> while the local variable is unbound.
NoRetry ==
    [pc |-> "idle", ref |-> "", max_retries |-> 0, attempt |-> 0, seen |-> <<>>,
     results |-> <<>>, result |-> <<>>]
NoBrowser ==
    [client |-> "none", ref_map |-> <<>>, last |-> <<>>, scroll_y |-> 0, retry |-> NoRetry]

\* DiscordChannel: no send and no _split_message call made.
NoDiscord ==
    [pc |-> "idle", original |-> <<>>, max_len |-> 0, content |-> <<>>, chunks |-> <<>>,
     lines |-> <<>>, reply_to |-> None, image_paths |-> <<>>, content_parts |-> <<>>,
     uploads |-> <<>>, i |-> 0, attempt |-> 0, posts |-> <<>>, sleeps |-> <<>>,
     typing |-> FALSE]

\* AgentLoop.__init__ with no MCP server configured, and run() started: _running is
\* set, _connect_mcp has returned at once, no caller stands in _connect_mcp.
\* at[c] is where caller c of _connect_mcp stands ("out" of it, awaiting the
\* "connect", awaiting the "aclose" of the except clause); calls, attempts and closes
\* count the calls made, the connections started and the aclose calls made.
MaxMcpCalls == 4
McpCallers == {"run", "process_direct"}
NoAgent ==
    [running |-> TRUE, waiting |-> FALSE, returned |-> FALSE, polls |-> 0, taken |-> 0,
     mcp_servers |-> {}, mcp_connected |-> FALSE, mcp_connecting |-> FALSE,
     mcp_stack |-> "none", at |-> [c \in McpCallers |-> "out"],
     calls |-> 0, attempts |-> 0, closes |-> 0]

\* No process_direct call is made or to be made.
NoDirect ==
    [pc |-> "idle", msg |-> NoMsg, sess |-> 0, on_progress |-> "none", messages |-> <<>>,
     iteration |-> 0, final_content |-> None, tools_used |-> <<>>, forced |-> FALSE,
     response |-> NoResponse, tc_idx |-> 0, llm_calls |-> 0, calls |-> <<>>, executed |-> 0,
     todo |-> <<>>, returned |-> <<>>]

InboundMessage(channel, sender_id, chat_id, content) ==
    [channel |-> channel, sender_id |-> sender_id, chat_id |-> chat_id, content |-> content,
     metadata |-> {"message_id"}, media |-> <<>>]

OutboundMessage(channel, chat_id, content, metadata) ==
    [channel |-> channel, chat_id |-> chat_id, content |-> content, metadata |-> metadata]

\* InboundMessage.session_key
session_key(m) == m.channel \o ":" \o m.chat_id

\* --------------------------------------------------------- session store
Session(key) == [key |-> key, messages |-> <<>>, last_consolidated |-> 0]

\* SessionManager.get_or_create: the cached object, else one loaded from the file, else a new one.
get_or_create(s, key) ==
    IF s.cache[key] # 0 THEN [s EXCEPT !.sess = s.cache[key]]
    ELSE LET o == IF s.disk[key].exists
                  THEN [key |-> key, messages |-> s.disk[key].messages,
                        last_consolidated |-> s.disk[key].last_consolidated]
                  ELSE Session(key)
             id == Len(s.objs) + 1
         IN [s EXCEPT !.objs = Append(@, o), !.cache[key] = id, !.sess = id]

\* SessionManager.save: write the object to its file and keep it cached.
save(s, id) ==
    LET o == s.objs[id]
    IN [s EXCEPT !.disk[o.key] = [exists |-> TRUE, messages |-> o.messages,
                                  last_consolidated |-> o.last_consolidated],
                 !.cache[o.key] = id]

\* SessionManager.invalidate
invalidate(s, key) == [s EXCEPT !.cache[key] = 0]

\* Session.clear
clear(s, id) == [s EXCEPT !.objs[id].messages = <<>>, !.objs[id].last_consolidated = 0]

\* Session.add_message; tools_used None is the empty sequence.
add_message(s, id, role, content, used) ==
    [s EXCEPT !.objs[id].messages =
        Append(@, [role |-> role, content |-> content, tools_used |-> used])]

\* Session.get_history(max_messages): role and content of the last max_messages messages.
get_history(o, max_messages) ==
    LET n == Len(o.messages)
        from == IF n > max_messages THEN n - max_messages + 1 ELSE 1
    IN [i \in 1..(n - from + 1) |->
            [role |-> o.messages[from + i - 1].role,
             content |-> o.messages[from + i - 1].content,
             tool_calls |-> <<>>, tool_call_id |-> None, name |-> None]]

\* ------------------------------------------------------- context builder
Message(role, content, tool_calls, tool_call_id, name) ==
    [role |-> role, content |-> content, tool_calls |-> tool_calls,
     tool_call_id |-> tool_call_id, name |-> name]

SYSTEM_PROMPT == "SYSTEM PROMPT"

\* ContextBuilder.build_messages without media: system prompt, history, current message.
build_messages(history, current_message, channel, chat_id) ==
    <<Message("system",
              SYSTEM_PROMPT \o "\n\n## Current Session\nChannel: " \o channel \o "\nChat ID: " \o chat_id,
              <<>>, None, None)>>
    \o history
    \o <<Message("user", current_message, <<>>, None, None)>>

\* ContextBuilder.add_tool_result
add_tool_result(msgs, tool_call_id, tool_name, result) ==
    Append(msgs, Message("tool", result, <<>>, tool_call_id, tool_name))

\* ContextBuilder.add_assistant_message
add_assistant_message(msgs, content, tool_calls) ==
    Append(msgs, Message("assistant", content, tool_calls, None, None))

\* ------------------------------------------------------------ agent loop
DEFAULT_REPLY == "I've completed processing but have no response to give."
BACKGROUND_DONE == "Background task completed."
NEW_SESSION_REPLY == "New session started. Memory consolidation in progress."
HELP_REPLY == "nanobot commands:\n/new - Start a new conversation\n/help - Show available commands"
ERROR_PREFIX == "Sorry, I encountered an error: "
LIST_HAS_NO_LOWER == "'list' object has no attribute 'lower'"
\* The paths of the scenarios that are image files.
ImageFiles == {"/tmp/cat.png"}
PROVIDER_ERROR == "provider unavailable"

\* str.split(":", 1) on the chat_id of a system message, with the fallback to cli.
Origin(chat_id) ==
    CASE chat_id = "cli:u1" -> [channel |-> "cli", chat_id |-> "u1"]
      [] OTHER -> [channel |-> "cli", chat_id |-> chat_id]

publish_outbound(s, m) == [s EXCEPT !.outbound = Append(@, m)]

\* _process_system_message after _run_agent_loop, then run() publishing the response.
end_system_turn(s) ==
    LET o == Origin(s.msg.chat_id)
        fc == IF s.final_content = None THEN BACKGROUND_DONE ELSE s.final_content
        s1 == add_message(s, s.sess, "user",
                          "[System: " \o s.msg.sender_id \o "] " \o s.msg.content, <<>>)
        s2 == add_message(s1, s.sess, "assistant", fc, <<>>)
        s3 == save(s2, s.sess)
    IN [publish_outbound(s3, OutboundMessage(o.channel, o.chat_id, fc, {})) EXCEPT !.pc = "idle"]

\* The end of a turn that records the assistant message without its tools_used.
end_message_turn_no_tools(s) ==
    LET fc == IF s.final_content = None THEN DEFAULT_REPLY ELSE s.final_content
        s1 == add_message(s, s.sess, "user", s.msg.content, <<>>)
        s2 == add_message(s1, s.sess, "assistant", fc, <<>>)
        s3 == save(s2, s.sess)
        reply == IF s.sent_in_turn
                 THEN OutboundMessage(s.msg.channel, s.msg.chat_id, "", {})
                 ELSE OutboundMessage(s.msg.channel, s.msg.chat_id, fc, s.msg.metadata)
    IN [publish_outbound(s3, reply) EXCEPT !.pc = "idle"]

\* The end of a turn that saves the session before the turn's messages are added.
end_message_turn_save_first(s) ==
    LET fc == IF s.final_content = None THEN DEFAULT_REPLY ELSE s.final_content
        s1 == save(s, s.sess)
        s2 == add_message(s1, s.sess, "user", s.msg.content, <<>>)
        s3 == add_message(s2, s.sess, "assistant", fc, s.tools_used)
        reply == IF s.sent_in_turn
                 THEN OutboundMessage(s.msg.channel, s.msg.chat_id, "", {})
                 ELSE OutboundMessage(s.msg.channel, s.msg.chat_id, fc, s.msg.metadata)
    IN [publish_outbound(s3, reply) EXCEPT !.pc = "idle"]

\* The end of a turn after which run() publishes nothing for a suppressed reply.
end_message_turn_silent(s) ==
    LET fc == IF s.final_content = None THEN DEFAULT_REPLY ELSE s.final_content
        s1 == add_message(s, s.sess, "user", s.msg.content, <<>>)
        s2 == add_message(s1, s.sess, "assistant", fc, s.tools_used)
        s3 == save(s2, s.sess)
    IN IF s.sent_in_turn THEN [s3 EXCEPT !.pc = "idle"]
       ELSE [publish_outbound(s3, OutboundMessage(s.msg.channel, s.msg.chat_id, fc,
                                                  s.msg.metadata))
                EXCEPT !.pc = "idle"]

\* _process_message after _run_agent_loop, then run() publishing the response
\* (an empty-content message when _process_message returned None).
end_message_turn(s) ==
    LET fc == IF s.final_content = None THEN DEFAULT_REPLY ELSE s.final_content
        s1 == add_message(s, s.sess, "user", s.msg.content, <<>>)
        s2 == add_message(s1, s.sess, "assistant", fc, s.tools_used)
        s3 == save(s2, s.sess)
        reply == IF s.sent_in_turn
                 THEN OutboundMessage(s.msg.channel, s.msg.chat_id, "", {})
                 ELSE OutboundMessage(s.msg.channel, s.msg.chat_id, fc, s.msg.metadata)
    IN [publish_outbound(s3, reply) EXCEPT !.pc = "idle"]

\* The return of _run_agent_loop to its caller.
end_turn(s) ==
    IF s.msg.channel = "system" THEN end_system_turn(s) ELSE end_message_turn(s)

\* A while loop that never tests the iteration count.
loop_head_unbounded(s) ==
    [s EXCEPT !.iteration = @ + 1, !.llm_calls = @ + 1, !.pc = "llm",
              !.response = NoResponse, !.tc_idx = 0]

\* while iteration < self.max_iterations: iteration += 1; await self.provider.chat(...)
loop_head(s) ==
    IF s.iteration < max_iterations
    THEN [s EXCEPT !.iteration = @ + 1, !.llm_calls = @ + 1, !.pc = "llm",
                   !.response = NoResponse, !.tc_idx = 0]
    ELSE end_turn(s)

\* After the for loop over response.tool_calls: leave the while loop on a detected loop.
after_tool_calls(s) ==
    IF s.final_content # None /\ ContainsLoopDetected(s.final_content)
    THEN end_turn(s)
    ELSE loop_head(s)

\* The for loop over response.tool_calls from position i up to the next await.
tool_loop(s, i) ==
    IF i > Len(s.response.tool_calls) THEN after_tool_calls(s)
    ELSE LET tool_call == s.response.tool_calls[i]
             tr == track_tool_call(s.tool_call_history, tool_call.name, tool_call.arguments)
             s1 == [s EXCEPT !.tools_used = Append(@, tool_call.name),
                             !.calls = Append(@, [id |-> tool_call.id, name |-> tool_call.name,
                                                  arguments |-> tool_call.arguments,
                                                  llm_call |-> s.llm_calls]),
                             !.tool_call_history = tr.history,
                             !.tc_idx = i]
         IN IF tr.detected
            THEN after_tool_calls(
                    [s1 EXCEPT !.messages = add_tool_result(@, tool_call.id, tool_call.name,
                                                            loop_message(tool_call.name)),
                               !.final_content = loop_message(tool_call.name)])
            ELSE [s1 EXCEPT !.pc = "tool", !.executed = @ + 1]

\* AgentLoop._tool_hint: each call as name("first argument value"), joined by ", "
\* (the argument values of the model's calls are strings of at most 40 characters).
tool_fmt(tc) ==
    IF tc.arguments = <<>> THEN tc.name
    ELSE tc.name \o "(\"" \o tc.arguments[1][2] \o "\")"

RECURSIVE tool_hint(_)
tool_hint(tool_calls) ==
    IF Len(tool_calls) = 0 THEN ""
    ELSE IF Len(tool_calls) = 1 THEN tool_fmt(tool_calls[1])
    ELSE tool_fmt(tool_calls[1]) \o ", " \o tool_hint(Tail(tool_calls))

\* A progress callback that marks the inbound message's own metadata.
bus_progress_in_place(s, content) ==
    LET s1 == [s EXCEPT !.msg.metadata = @ \cup {"_progress"}]
    IN publish_outbound(s1, OutboundMessage(s.msg.channel, s.msg.chat_id, content,
                                            s1.msg.metadata))

\* _bus_progress
bus_progress(s, content) ==
    publish_outbound(s, OutboundMessage(s.msg.channel, s.msg.chat_id, content,
                                        s.msg.metadata \cup {"_progress"}))

\* The tool-call branch without the assistant message that carries the calls.
handle_tool_calls_no_assistant(s) ==
    LET clean == strip_think(s.response.content)
        s1 == IF s.on_progress = "bus" /\ clean # None THEN bus_progress(s, clean) ELSE s
        s2 == IF s.on_progress = "bus" THEN bus_progress(s1, tool_hint(s.response.tool_calls)) ELSE s1
    IN tool_loop(s2, 1)

\* if response.has_tool_calls: progress, the assistant message, the first tool call.
handle_tool_calls(s) ==
    LET clean == strip_think(s.response.content)
        s1 == IF s.on_progress = "bus" /\ clean # None THEN bus_progress(s, clean) ELSE s
        s2 == IF s.on_progress = "bus" THEN bus_progress(s1, tool_hint(s.response.tool_calls)) ELSE s1
        tool_call_dicts ==
            [i \in 1..Len(s.response.tool_calls) |->
                [id |-> s.response.tool_calls[i].id,
                 name |-> s.response.tool_calls[i].name,
                 arguments |-> json_dumps(s.response.tool_calls[i].arguments)]]
        s3 == [s2 EXCEPT !.messages = add_assistant_message(@, s.response.content, tool_call_dicts)]
    IN tool_loop(s3, 1)

\* The text branch retrying whatever the text is, an empty one included.
handle_text_any_text(s) ==
    LET fc == strip_think(s.response.content)
        max_retries == IF s.forced THEN forced_max_retries ELSE unforced_max_retries
    IN IF s.tools_used = <<>> /\ s.iteration < max_retries
       THEN loop_head([s EXCEPT !.final_content = None])
       ELSE end_turn([s EXCEPT !.final_content = fc])

\* else: the text-only response, retried or final.
handle_text(s) ==
    LET fc == strip_think(s.response.content)
        max_retries == IF s.forced THEN forced_max_retries ELSE unforced_max_retries
    IN IF s.tools_used = <<>> /\ fc # None /\ s.iteration < max_retries
       THEN loop_head([s EXCEPT !.final_content = None])
       ELSE end_turn([s EXCEPT !.final_content = fc])

\* The results tools.execute may give for a call.
ToolResults(tool_call) ==
    CASE tool_call.name = "list_dir" -> {RESULT_FILES, RESULT_NOT_FOUND}
      [] tool_call.name = "web_search" -> {RESULT_SEARCH}
      [] tool_call.name = "message" -> {RESULT_SENT}
      [] tool_call.name = "session" /\ tool_call.arguments[1][2] = "delete"
            -> {RESULT_DELETED, RESULT_NO_SESSION}
      [] tool_call.name = "session" -> {RESULT_CLEARED}
      [] OTHER -> {}

\* SessionTool.execute(action="clear", key=...): get_or_create, clear, save.
session_tool_clear(s, key) ==
    LET s1 == get_or_create(s, key)
        s2 == clear(s1, s1.sess)
    IN [save(s2, s1.sess) EXCEPT !.sess = s.sess]

\* SessionTool.execute(action="delete", key=...): unlink the session file and drop
\* the cached object when the file exists (one file per key: no legacy file).
session_tool_delete(s, key) ==
    IF s.disk[key].exists THEN invalidate([s EXCEPT !.disk[key] = NoFile], key) ELSE s

\* What SessionTool.execute(action="delete", key=...) returns.
delete_result(s, key) == IF s.disk[key].exists THEN RESULT_DELETED ELSE RESULT_NO_SESSION

\* result is what tools.execute returns for tool_call in state s.
Returns(s, tool_call, result) ==
    (tool_call.name = "session" /\ tool_call.arguments[1][2] = "delete")
        => result = delete_result(s, tool_call.arguments[2][2])

\* _set_tool_context: the channel and chat the turn gave the tools, the origin for a
\* system message.
tool_context(m) ==
    IF m.channel = "system" THEN Origin(m.chat_id)
    ELSE [channel |-> m.channel, chat_id |-> m.chat_id]

\* MessageTool.execute: publish to the current context and note it was sent in this turn.
message_tool_send(s, content) ==
    LET to == tool_context(s.msg)
    IN [publish_outbound(s, OutboundMessage(to.channel, to.chat_id, content, {}))
            EXCEPT !.sent_in_turn = TRUE]

\* What tools.execute does to the state.
tool_effect(s, tool_call) ==
    CASE tool_call.name = "session" /\ tool_call.arguments[1][2] = "delete"
            -> session_tool_delete(s, tool_call.arguments[2][2])
      [] tool_call.name = "session" -> session_tool_clear(s, tool_call.arguments[2][2])
      [] tool_call.name = "message" -> message_tool_send(s, tool_call.arguments[1][2])
      [] OTHER -> s

\* tools.execute has returned result: verify it, append it, go on with the next tool call.
tool_return(s, result) ==
    LET tool_call == s.response.tool_calls[s.tc_idx]
        s1 == tool_effect(s, tool_call)
        text == IF is_failure(result) THEN result \o failure_hint(result) ELSE result
        s2 == [s1 EXCEPT !.messages = add_tool_result(@, tool_call.id, tool_call.name, text)]
    IN tool_loop(s2, s.tc_idx + 1)

\* The directives of the forcing heuristics and of plan mode, each by its first sentence.
BROWSER_SYSTEM_HINT == "\n\n[MANDATORY] You MUST use the browser tool for this request."
BROWSER_USER_HINT == "IMPORTANT: You MUST use the browser tool to complete this request."
CRON_SYSTEM_HINT == "\n\n[MANDATORY] You MUST use the cron tool to set/check scheduled tasks."
CRON_USER_HINT == "IMPORTANT: You MUST use the cron tool to complete this request."
IMAGE_SYSTEM_HINT == "\n\n[MANDATORY] You MUST use the generate_image tool to create images."
IMAGE_USER_HINT == "IMPORTANT: You MUST use the generate_image tool to complete this request."
SESSION_SYSTEM_HINT == "\n\n[MANDATORY] You MUST use the session tool for session/memory operations."
SESSION_USER_HINT == "IMPORTANT: You MUST use the session tool to complete this request."
PLAN_SYSTEM_HINT == "\n\n[PLANNING MODE] For complex tasks, first think about the steps needed and output a brief plan."
PLAN_USER_HINT == "For this complex task, please first output a plan with clear step names."

\* Append system_hint to the first system message and user_hint as a user message.
add_hint(msgs, system_hint, user_hint) ==
    LET sys == { i \in 1..Len(msgs) : msgs[i].role = "system" }
        first == CHOOSE i \in sys : \A j \in sys : i <= j
        m1 == IF sys = {} THEN msgs
              ELSE [msgs EXCEPT ![first].content = @ \o system_hint]
    IN Append(m1, Message("user", user_hint, <<>>, None, None))

\* The content of the last user message of initial_messages.
last_user_message(initial_messages) ==
    LET users == { i \in 1..Len(initial_messages) : initial_messages[i].role = "user" }
    IN IF users = {} THEN ""
       ELSE initial_messages[CHOOSE i \in users : \A j \in users : j <= i].content

\* _run_agent_loop up to its first provider.chat: forcing, tracking reset, plan mode.
begin_agent_loop(s, initial_messages, progress) ==
    LET user_message == last_user_message(initial_messages)
        m1 == IF browser_forced(user_message)
              THEN add_hint(initial_messages, BROWSER_SYSTEM_HINT, BROWSER_USER_HINT)
              ELSE initial_messages
        m2 == IF cron_forced(user_message)
              THEN add_hint(m1, CRON_SYSTEM_HINT, CRON_USER_HINT) ELSE m1
        m3 == IF image_forced(user_message)
              THEN add_hint(m2, IMAGE_SYSTEM_HINT, IMAGE_USER_HINT) ELSE m2
        m4 == IF session_forced(user_message)
              THEN add_hint(m3, SESSION_SYSTEM_HINT, SESSION_USER_HINT) ELSE m3
        m5 == IF is_complex_task(user_message)
              THEN add_hint(m4, PLAN_SYSTEM_HINT, PLAN_USER_HINT) ELSE m4
    IN loop_head([s EXCEPT !.messages = m5, !.forced = IsForced(user_message),
                           !.tool_call_history = <<>>, !.on_progress = progress,
                           !.iteration = 0, !.final_content = None, !.tools_used = <<>>,
                           !.llm_calls = 0, !.calls = <<>>, !.executed = 0])

Task(kind, key, session, archive) ==
    [kind |-> kind, key |-> key, session |-> session, archive |-> archive,
     st |-> "created", old_messages |-> <<>>, current_memory |-> None, keep_count |-> 0]

\* if len(session.messages) > self.memory_window and session.key not in self._consolidating
schedule_consolidation(s) ==
    LET o == s.objs[s.sess]
    IN IF Len(o.messages) > memory_window /\ o.key \notin s.consolidating
       THEN [s EXCEPT !.consolidating = @ \cup {o.key},
                      !.tasks = Append(@, Task("normal", o.key, s.sess, <<>>))]
       ELSE s

\* _process_message for a message that is no slash command, up to the first provider.chat.
\* ContextBuilder._build_user_content_async: the text itself without media, a list of
\* parts with media: one image_url part for each path that is an image file, then
\* the text part.
build_user_content(text, media) ==
    IF media = <<>> THEN [variant |-> "Text", text |-> text, parts |-> <<>>]
    ELSE [variant |-> "Parts", text |-> "",
          parts |-> [i \in 1..Len(SelectSeq(media, LAMBDA path : path \in ImageFiles)) |->
                        [type |-> "image_url",
                         text |-> SelectSeq(media, LAMBDA path : path \in ImageFiles)[i]]]
                    \o <<[type |-> "text", text |-> text]>>]

\* _run_agent_loop: user_message.lower() raises AttributeError on a list.
lower_raises(user_content) == user_content.variant # "Text"

\* run(): the except clause around _process_message.
process_message_raised(s, error) ==
    [publish_outbound(s, OutboundMessage(s.msg.channel, s.msg.chat_id, ERROR_PREFIX \o error, {}))
        EXCEPT !.pc = "idle"]

\* A turn that records the user message in the session before its first LLM call.
process_message_keyed_user_first(s, key) ==
    LET s1 == get_or_create(s, key)
        s2 == add_message(s1, s1.sess, "user", s.msg.content, <<>>)
        s3 == [schedule_consolidation(s2) EXCEPT !.sent_in_turn = FALSE]
        initial_messages ==
            build_messages(get_history(s1.objs[s1.sess], memory_window), s.msg.content,
                           s.msg.channel, s.msg.chat_id)
    IN begin_agent_loop(s3, initial_messages, "bus")

process_message_keyed(s, key) ==
    LET s1 == get_or_create(s, key)
        s2 == schedule_consolidation(s1)
        s3 == [s2 EXCEPT !.sent_in_turn = FALSE]
        user_content == build_user_content(s.msg.content, s.msg.media)
        initial_messages ==
            build_messages(get_history(s3.objs[s3.sess], memory_window), user_content.text,
                           s.msg.channel, s.msg.chat_id)
    IN IF lower_raises(user_content) THEN process_message_raised(s3, LIST_HAS_NO_LOWER)
       ELSE begin_agent_loop(s3, initial_messages, "bus")

\* key = session_key or msg.session_key, for a message of run()
process_message(s) == process_message_keyed(s, session_key(s.msg))

\* _process_system_message up to the first provider.chat.
process_system_message(s) ==
    LET o == Origin(s.msg.chat_id)
        s1 == get_or_create(s, o.channel \o ":" \o o.chat_id)
        initial_messages ==
            build_messages(get_history(s1.objs[s1.sess], memory_window), s.msg.content,
                           o.channel, o.chat_id)
    IN begin_agent_loop(s1, initial_messages, "none")

\* /new that clears the session without saving it.
process_new_unsaved(s) ==
    LET s1 == get_or_create(s, session_key(s.msg))
        messages_to_archive == s1.objs[s1.sess].messages
        s2 == clear(s1, s1.sess)
        s4 == invalidate(s2, s2.objs[s1.sess].key)
        s5 == [s4 EXCEPT !.tasks = Append(@, Task("archive", s4.objs[s1.sess].key, 0,
                                                   messages_to_archive))]
    IN [publish_outbound(s5, OutboundMessage(s.msg.channel, s.msg.chat_id, NEW_SESSION_REPLY, {}))
            EXCEPT !.pc = "idle"]

\* /new that takes the messages to archive after clearing the session.
process_new_archives_cleared(s) ==
    LET s1 == get_or_create(s, session_key(s.msg))
        s2 == clear(s1, s1.sess)
        messages_to_archive == s2.objs[s1.sess].messages
        s3 == save(s2, s1.sess)
        s4 == invalidate(s3, s3.objs[s1.sess].key)
        s5 == [s4 EXCEPT !.tasks = Append(@, Task("archive", s4.objs[s1.sess].key, 0,
                                                   messages_to_archive))]
    IN [publish_outbound(s5, OutboundMessage(s.msg.channel, s.msg.chat_id, NEW_SESSION_REPLY, {}))
            EXCEPT !.pc = "idle"]

\* _process_message for /new, and run() publishing the reply.
process_new(s) ==
    LET s1 == get_or_create(s, session_key(s.msg))
        messages_to_archive == s1.objs[s1.sess].messages
        s2 == clear(s1, s1.sess)
        s3 == save(s2, s1.sess)
        s4 == invalidate(s3, s3.objs[s1.sess].key)
        s5 == [s4 EXCEPT !.tasks = Append(@, Task("archive", s4.objs[s1.sess].key, 0,
                                                   messages_to_archive))]
    IN [publish_outbound(s5, OutboundMessage(s.msg.channel, s.msg.chat_id, NEW_SESSION_REPLY, {}))
            EXCEPT !.pc = "idle"]

\* _process_message for /help, and run() publishing the reply.
process_help(s) ==
    LET s1 == get_or_create(s, session_key(s.msg))
    IN [publish_outbound(s1, OutboundMessage(s.msg.channel, s.msg.chat_id, HELP_REPLY, {}))
            EXCEPT !.pc = "idle"]

\* cmd = msg.content.strip().lower()
Cmd(m) == Lower(Strip(m.content))

\* run(): an inbound message consumed, its locals fresh.
\* A loop that never looks at _running.
keeps_running_always(a) == TRUE

\* run(): while self._running
keeps_running(a) == a.running

\* run() takes a message from the bus when wait_for(consume_inbound) is pending, or
\* when the while test passes and the wait returns a queued message at once.
Consumes == ~agent.returned /\ (agent.waiting \/ keeps_running(agent))

\* wait_for returned a message. taken counts the messages taken, and polls the
\* timeouts elapsed, since stop() was called.
consumed(a) == [a EXCEPT !.waiting = FALSE, !.taken = IF a.running THEN @ ELSE @ + 1]

Taken(m) ==
    [Cur EXCEPT !.msg = m, !.sess = 0, !.response = NoResponse, !.tc_idx = 0,
                !.agent = consumed(agent)]

\* ---------------------------------------------------------------- actions
ProcessSystemMessage ==
    /\ pc = "idle" /\ inbound # <<>> /\ Consumes
    /\ Head(inbound).channel = "system"
    /\ inbound' = Tail(inbound)
    /\ Becomes(process_system_message(Taken(Head(inbound))))
    /\ UNCHANGED <<memory_md, history_md, provider>>

ProcessNew ==
    /\ pc = "idle" /\ inbound # <<>> /\ Consumes
    /\ Head(inbound).channel # "system"
    /\ Cmd(Head(inbound)) = "/new"
    /\ inbound' = Tail(inbound)
    /\ Becomes(process_new(Taken(Head(inbound))))
    /\ UNCHANGED <<memory_md, history_md, provider>>

ProcessHelp ==
    /\ pc = "idle" /\ inbound # <<>> /\ Consumes
    /\ Head(inbound).channel # "system"
    /\ Cmd(Head(inbound)) # "/new" /\ Cmd(Head(inbound)) = "/help"
    /\ inbound' = Tail(inbound)
    /\ Becomes(process_help(Taken(Head(inbound))))
    /\ UNCHANGED <<memory_md, history_md, provider>>

ProcessMessage ==
    /\ pc = "idle" /\ inbound # <<>> /\ Consumes
    /\ Head(inbound).channel # "system"
    /\ Cmd(Head(inbound)) \notin {"/new", "/help"}
    /\ inbound' = Tail(inbound)
    /\ Becomes(process_message(Taken(Head(inbound))))
    /\ UNCHANGED <<memory_md, history_md, provider>>

\* provider.chat returns a text-only response.
LLMReturnText ==
    /\ pc = "llm"
    /\ \E c \in provider.texts :
        Becomes([Cur EXCEPT !.pc = "got", !.response = [content |-> c, tool_calls |-> <<>>]])
    /\ UNCHANGED <<inbound, memory_md, history_md, provider>>

CallId(n, i) == "call_" \o ToString(n) \o "_" \o ToString(i)

\* provider.chat returns a response with tool calls.
LLMReturnToolCalls ==
    /\ pc = "llm"
    /\ \E tcs \in SeqsUpTo(provider.tools, MaxCallsPerResponse), c \in provider.tool_texts :
        /\ Len(tcs) <= provider.budget
        /\ provider' = [provider EXCEPT !.budget = @ - Len(tcs)]
        /\ Becomes([Cur EXCEPT !.pc = "got",
                    !.response = [content |-> c,
                                  tool_calls |-> [i \in 1..Len(tcs) |->
                                      [id |-> CallId(llm_calls, i), name |-> tcs[i].name,
                                       arguments |-> tcs[i].arguments]]]])
    /\ UNCHANGED <<inbound, memory_md, history_md>>

\* provider.chat raises and run() goes on without a word.
LLMRaiseSilently ==
    /\ pc = "llm"
    /\ Becomes([Cur EXCEPT !.pc = "idle"])
    /\ UNCHANGED <<inbound, memory_md, history_md, provider>>

\* provider.chat raises: run() publishes the apology and goes on.
LLMRaise ==
    /\ pc = "llm"
    /\ Becomes([publish_outbound(Cur, OutboundMessage(msg.channel, msg.chat_id,
                                                      ERROR_PREFIX \o PROVIDER_ERROR, {}))
                    EXCEPT !.pc = "idle"])
    /\ UNCHANGED <<inbound, memory_md, history_md, provider>>

HandleToolCalls ==
    /\ pc = "got"
    /\ response.tool_calls # <<>>
    /\ Becomes(handle_tool_calls(Cur))
    /\ UNCHANGED <<inbound, memory_md, history_md, provider>>

HandleText ==
    /\ pc = "got"
    /\ response.tool_calls = <<>>
    /\ Becomes(handle_text(Cur))
    /\ UNCHANGED <<inbound, memory_md, history_md, provider>>

ToolReturn ==
    /\ pc = "tool"
    /\ \E result \in ToolResults(response.tool_calls[tc_idx]) :
        /\ Returns(Cur, response.tool_calls[tc_idx], result)
        /\ Becomes(tool_return(Cur, result))
    /\ UNCHANGED <<inbound, memory_md, history_md, provider>>

\* ------------------------------------------------- the iteration-loop scenarios
LoopContents ==
    {HELLO, LIST_TMP, GEN_AN_IMAGE, GEN_IMAGE, SEARCH_CATS, SLASH_NEW, SLASH_NEW_PADDED, SLASH_HELP}

LoopInbound ==
    { InboundMessage("cli", "user", "u1", c) : c \in LoopContents }
    \cup { InboundMessage("system", "subagent", "cli:u1", SUBAGENT_DONE) }

InitStore(files) ==
    /\ objs = <<>>
    /\ cache = [k \in Keys |-> 0]
    /\ disk \in [Keys -> files]
    /\ memory_md = ""
    /\ history_md = <<>>
    /\ consolidating = {}
    /\ tasks = <<>>

InitTurnState ==
    /\ outbound = <<>>
    /\ tool_call_history = <<>>
    /\ sent_in_turn = FALSE
    /\ pc = "idle"
    /\ msg = NoMsg
    /\ sess = 0
    /\ on_progress = "none"
    /\ messages = <<>>
    /\ iteration = 0
    /\ final_content = None
    /\ tools_used = <<>>
    /\ forced = FALSE
    /\ response = NoResponse
    /\ tc_idx = 0
    /\ llm_calls = 0
    /\ calls = <<>>
    /\ executed = 0
    /\ direct = NoDirect
    /\ browser = NoBrowser
    /\ discord = NoDiscord

InitLoopState ==
    /\ InitTurnState
    /\ agent = NoAgent

InitLoop ==
    /\ InitStore({NoFile})
    /\ InitLoopState
    /\ \E m \in LoopInbound : inbound = <<m>>
    /\ provider = [tools |-> LoopToolCalls, texts |-> LoopTexts, tool_texts |-> {None},
                   budget |-> MaxToolCalls]

NextLoop ==
    \/ ProcessSystemMessage
    \/ ProcessNew
    \/ ProcessHelp
    \/ ProcessMessage
    \/ LLMReturnText
    \/ LLMReturnToolCalls
    \/ LLMRaise
    \/ HandleToolCalls
    \/ HandleText
    \/ ToolReturn

SpecLoop == InitLoop /\ [][NextLoop]_vars

\* ------------------------------------------------------ memory consolidator
Max(a, b) == IF a >= b THEN a ELSE b
Min(a, b) == IF a <= b THEN a ELSE b

\* Python's seq[start:stop], negative indices counting from the end.
py_slice(seq, start, stop) ==
    LET n == Len(seq)
        lo == IF start < 0 THEN Max(n + start, 0) ELSE Min(start, n)
        hi == IF stop < 0 THEN Max(n + stop, 0) ELSE Min(stop, n)
    IN SubSeq(seq, lo + 1, hi)

\* The lines of the prompt: the messages with content.
conversation(old_messages) ==
    SelectSeq(old_messages, LAMBDA m : m.content # None /\ m.content # "")

\* _consolidate_memory up to the prompt: what to consolidate, or nothing to do.
select_old_messages(o, archive_all) ==
    IF archive_all
    THEN [skip |-> FALSE, old_messages |-> o.messages, keep_count |-> 0]
    ELSE LET keep_count == memory_window \div 2
             old_messages == py_slice(o.messages, o.last_consolidated, 0 - keep_count)
         IN [skip |-> \/ Len(o.messages) <= keep_count
                      \/ Len(o.messages) - o.last_consolidated <= 0
                      \/ old_messages = <<>>,
             old_messages |-> old_messages,
             keep_count |-> keep_count]

\* What the provider may answer to the consolidation prompt.
HISTORY_ENTRY == "[2026-02-14 22:50] User asked about x"
HISTORY_OBJECT == "<object {summary: x}>"
MEMORY_A == "- Name: Nado"
MEMORY_OBJECT == "<object {name: Nado}>"

\* isinstance(v, str) and json.dumps(v) for the values above.
IsStr(v) == v \notin {HISTORY_OBJECT, MEMORY_OBJECT}
Stringify(v) ==
    CASE v = HISTORY_OBJECT -> "{\"summary\": \"x\"}"
      [] v = MEMORY_OBJECT -> "{\"name\": \"Nado\"}"
      [] OTHER -> v

\* A reply: provider.chat raising, or its content: empty, JSON that is no object, or
\* an object with its two values (None for a missing or empty one), in a code fence
\* or not; and which file write it leads to raises, if any.
ConsolidationReplies ==
    [kind : {"raise", "empty", "list"}, fenced : {FALSE}, history_entry : {None},
     memory_update : {None}, raises : {"none"}]
    \cup
    [kind : {"dict"}, fenced : {FALSE},
     history_entry : {None, HISTORY_ENTRY, HISTORY_OBJECT},
     memory_update : {None, MEMORY_A, MEMORY_OBJECT},
     raises : {"none", "append_history", "write_long_term"}]
    \cup
    [kind : {"dict"}, fenced : {TRUE}, history_entry : {HISTORY_ENTRY},
     memory_update : {MEMORY_A}, raises : {"none"}]

\* text.split("\n", 1)[-1].rsplit("```", 1)[0].strip() when text starts with a fence.
unfence(reply) == IF reply.fenced THEN [reply EXCEPT !.fenced = FALSE] ELSE reply

\* _consolidate_memory from the return of provider.chat: the files and whether the
\* end of the try block, where the cursor is set, is reached.
apply_reply(reply, current_memory, history, memory) ==
    IF unfence(reply).kind # "dict"
    THEN [history |-> history, memory |-> memory, completed |-> FALSE]
    ELSE LET entry == reply.history_entry
             update == IF IsStr(reply.memory_update) THEN reply.memory_update
                       ELSE Stringify(reply.memory_update)
             appends == entry # None
             append_fails == appends /\ reply.raises = "append_history"
             history2 == IF appends /\ ~append_fails
                         THEN Append(history, IF IsStr(entry) THEN entry ELSE Stringify(entry))
                         ELSE history
             writes == ~append_fails /\ reply.memory_update # None /\ update # current_memory
             write_fails == writes /\ reply.raises = "write_long_term"
             memory2 == IF writes /\ ~write_fails THEN update ELSE memory
         IN [history |-> history2, memory |-> memory2,
             completed |-> ~append_fails /\ ~write_fails]

\* A cursor placed keep_count past the end of the messages.
new_cursor_past_end(o, archive_all, keep_count) ==
    IF archive_all THEN 0 ELSE Len(o.messages) + keep_count

\* session.last_consolidated at the end of a completed consolidation.
new_cursor(o, archive_all, keep_count) ==
    IF archive_all THEN 0 ELSE Len(o.messages) - keep_count

RemoveAt(seq, i) == SubSeq(seq, 1, i - 1) \o SubSeq(seq, i + 1, Len(seq))

\* A task end that leaves the key in the set.
discard_nothing(set, task) == set

\* finally: self._consolidating.discard(session.key), for the window-triggered task.
discard(set, task) == IF task.kind = "normal" THEN set \ {task.key} ELSE set

\* A consolidation task starts and runs up to its provider.chat, or returns early.
ConsolidateStart ==
    \E i \in 1..Len(tasks) :
        LET task == tasks[i]
            archive_all == task.kind = "archive"
            id == IF archive_all THEN Len(objs) + 1 ELSE task.session
            objs1 == IF archive_all
                     THEN Append(objs, [Session(task.key) EXCEPT !.messages = task.archive])
                     ELSE objs
            sel == select_old_messages(objs1[id], archive_all)
        IN /\ task.st = "created"
           /\ objs' = objs1
           /\ IF sel.skip
              THEN /\ tasks' = RemoveAt(tasks, i)
                   /\ consolidating' = discard(consolidating, task)
              ELSE /\ tasks' = [tasks EXCEPT ![i] =
                                   [task EXCEPT !.st = "awaiting", !.session = id,
                                                !.old_messages = sel.old_messages,
                                                !.keep_count = sel.keep_count,
                                                !.current_memory = memory_md]]
                   /\ consolidating' = consolidating
           /\ UNCHANGED <<inbound, outbound, cache, disk, memory_md, history_md,
                          tool_call_history, sent_in_turn, pc, msg, sess, on_progress,
                          messages, iteration, final_content, tools_used, forced, response,
                          tc_idx, llm_calls, calls, executed, provider, direct, browser, discord, agent>>

\* _consolidate_memory of task from the return of provider.chat to the end of the
\* task: the files, the session objects and the consolidating set it leaves.
finish_consolidation(task, reply) ==
    LET r == apply_reply(reply, task.current_memory, history_md, memory_md)
    IN [history |-> r.history,
        memory |-> r.memory,
        objs |-> IF r.completed
                 THEN [objs EXCEPT ![task.session].last_consolidated =
                          new_cursor(objs[task.session], task.kind = "archive",
                                     task.keep_count)]
                 ELSE objs,
        consolidating |-> discard(consolidating, task)]

\* provider.chat of a consolidation returns or raises; the task runs to its end.
ConsolidateFinishWith(i, reply) ==
        LET task == tasks[i]
            f == finish_consolidation(task, reply)
        IN /\ task.st = "awaiting"
           /\ history_md' = f.history
           /\ memory_md' = f.memory
           /\ objs' = f.objs
           /\ tasks' = RemoveAt(tasks, i)
           /\ consolidating' = f.consolidating
           /\ UNCHANGED <<inbound, outbound, cache, disk, tool_call_history, sent_in_turn,
                          pc, msg, sess, on_progress, messages, iteration, final_content,
                          tools_used, forced, response, tc_idx, llm_calls, calls, executed,
                          provider, direct, browser, discord, agent>>

ConsolidateFinish ==
    \E i \in 1..Len(tasks), reply \in ConsolidationReplies : ConsolidateFinishWith(i, reply)

\* ------------------------------------------------- the consolidation scenarios
MemContents == {HELLO, SLASH_NEW_PADDED}

MemInbound == { InboundMessage("cli", "user", "u1", c) : c \in MemContents }

\* A session file left by an earlier run: turns of a user message and its reply.
StoredTurn ==
    << [role |-> "user", content |-> HELLO, tools_used |-> <<>>],
       [role |-> "assistant", content |-> TEXT_HI, tools_used |-> <<>>] >>

RECURSIVE StoredTurns(_)
StoredTurns(n) == IF n = 0 THEN <<>> ELSE StoredTurns(n - 1) \o StoredTurn

StoredFile(n) == [exists |-> TRUE, messages |-> StoredTurns(n), last_consolidated |-> 0]

\* The workspace is fresh, or holds the session of memory_window earlier turns.
InitMem ==
    /\ InitStore({NoFile, StoredFile(memory_window)})
    /\ InitLoopState
    /\ inbound \in SeqsUpTo(MemInbound, MaxInbound)
    /\ provider = [tools |-> MemToolCalls, texts |-> MemTexts, tool_texts |-> {None},
                   budget |-> MaxClears]

NextMem ==
    \/ ProcessNew
    \/ ProcessMessage
    \/ LLMReturnText
    \/ LLMReturnToolCalls
    \/ LLMRaise
    \/ HandleToolCalls
    \/ HandleText
    \/ ToolReturn
    \/ ConsolidateStart
    \/ ConsolidateFinish

SpecMem == InitMem /\ [][NextMem]_vars

\* ------------------------------------------------- the session-delete scenarios
MaxDeleteCalls == 2

\* The workspace is fresh or holds the session of one earlier turn; the model may
\* ask the session tool to delete the session of the conversation.
InitDelete ==
    /\ InitStore({NoFile, StoredFile(1)})
    /\ InitLoopState
    /\ inbound \in SeqsUpTo({InboundMessage("cli", "user", "u1", HELLO)}, MaxInbound)
    /\ provider = [tools |-> {SESSION_DELETE, LIST_DIR}, texts |-> {TEXT_HI},
                   tool_texts |-> {None}, budget |-> MaxDeleteCalls]

NextDelete ==
    \/ ProcessMessage
    \/ LLMReturnText
    \/ LLMReturnToolCalls
    \/ LLMRaise
    \/ HandleToolCalls
    \/ HandleText
    \/ ToolReturn

SpecDelete == InitDelete /\ [][NextDelete]_vars

\* ------------------------------------------------------- the bus scenarios
\* Inbound messages of run() in one behaviour, and the tool calls of their turns.
MaxBusInbound == 2
MaxBusCalls == 2

BusInbound ==
    { InboundMessage("cli", "user", "u1", HELLO),
      InboundMessage("system", "subagent", "cli:u1", SUBAGENT_DONE) }

BusToolCalls == {SEND_MESSAGE, LIST_DIR}

InitBus ==
    /\ InitStore({NoFile})
    /\ InitLoopState
    /\ inbound \in SeqsUpTo(BusInbound, MaxBusInbound)
    /\ provider = [tools |-> BusToolCalls, texts |-> {TEXT_HI, TEXT_EMPTY},
                   tool_texts |-> {None, TEXT_THINK_HI}, budget |-> MaxBusCalls]

NextBus ==
    \/ ProcessSystemMessage
    \/ ProcessMessage
    \/ LLMReturnText
    \/ LLMReturnToolCalls
    \/ LLMRaise
    \/ HandleToolCalls
    \/ HandleText
    \/ ToolReturn

SpecBus == InitBus /\ [][NextBus]_vars

\* ------------------------------------------------- the argument-order scenarios
\* Tool calls of the turn whose arguments come in every key order.
MaxKeyCalls == 3

\* All orders of the items of one three-key dict.
Orders(items) ==
    { o \in [1..Len(items) -> 1..Len(items)] :
        \A i, j \in 1..Len(items) : i # j => o[i] # o[j] }
KeyOrders(items) == { [i \in 1..Len(items) |-> items[o[i]]] : o \in Orders(items) }

KeyToolCalls ==
    { [name |-> "web_search", arguments |-> a] :
        a \in KeyOrders(<< <<"q", "x">>, <<"n", "1">>, <<"lang", "en">> >>) }
    \cup { [name |-> "web_search",
            arguments |-> << <<"q", "y">>, <<"n", "1">>, <<"lang", "en">> >>] }

InitKey ==
    /\ InitStore({NoFile})
    /\ InitLoopState
    /\ inbound = <<InboundMessage("cli", "user", "u1", HELLO)>>
    /\ provider = [tools |-> KeyToolCalls, texts |-> {TEXT_HI}, tool_texts |-> {None},
                   budget |-> MaxKeyCalls]

NextKey ==
    \/ ProcessMessage
    \/ LLMReturnText
    \/ LLMReturnToolCalls
    \/ HandleToolCalls
    \/ HandleText
    \/ ToolReturn

SpecKey == InitKey /\ [][NextKey]_vars

\* ------------------------------------------------- the process_direct scenario
MaxDirectCalls == 1
MaxDirectToolCalls == 1

\* What process_direct raises to its caller when provider.chat raises.
RAISED == "raised: " \o PROVIDER_ERROR

\* The state as the process_direct caller's coroutine sees it: its own locals in
\* place of those of run(), the attributes of the AgentLoop, of its tools, of the
\* session manager and of the bus being the same objects for both.
Swap(s) ==
    [s EXCEPT !.pc = s.direct.pc, !.msg = s.direct.msg, !.sess = s.direct.sess,
              !.on_progress = s.direct.on_progress, !.messages = s.direct.messages,
              !.iteration = s.direct.iteration, !.final_content = s.direct.final_content,
              !.tools_used = s.direct.tools_used, !.forced = s.direct.forced,
              !.response = s.direct.response, !.tc_idx = s.direct.tc_idx,
              !.llm_calls = s.direct.llm_calls, !.calls = s.direct.calls,
              !.executed = s.direct.executed,
              !.direct = [s.direct EXCEPT
                  !.pc = s.pc, !.msg = s.msg, !.sess = s.sess,
                  !.on_progress = s.on_progress, !.messages = s.messages,
                  !.iteration = s.iteration, !.final_content = s.final_content,
                  !.tools_used = s.tools_used, !.forced = s.forced,
                  !.response = s.response, !.tc_idx = s.tc_idx,
                  !.llm_calls = s.llm_calls, !.calls = s.calls,
                  !.executed = s.executed]]

\* process_direct: `return response.content if response else ""`. The response
\* _process_message returns is handed to the caller, not to the bus.
direct_return(v) ==
    IF v.pc = "idle"
    THEN [v EXCEPT !.outbound = SubSeq(@, 1, Len(@) - 1),
                   !.direct.returned = Append(@, v.outbound[Len(v.outbound)].content)]
    ELSE v

\* process_direct(content, session_key, channel, chat_id) up to the first provider.chat.
process_direct(s, content, key, channel, chat_id) ==
    LET m == [channel |-> channel, sender_id |-> "user", chat_id |-> chat_id,
              content |-> content, metadata |-> {}, media |-> <<>>]
        v == [Swap(s) EXCEPT !.msg = m, !.sess = 0, !.response = NoResponse, !.tc_idx = 0,
                             !.direct.todo = Tail(@)]
    IN Swap(process_message_keyed(v, key))

DirectCall ==
    /\ direct.pc = "idle" /\ direct.todo # <<>>
    /\ Cmd(Head(direct.todo)) \notin {"/new", "/help"}
    /\ Becomes(process_direct(Cur, Head(direct.todo).content, Head(direct.todo).session_key,
                              Head(direct.todo).channel, Head(direct.todo).chat_id))
    /\ UNCHANGED <<inbound, memory_md, history_md, provider>>

DirectLLMReturnText ==
    /\ direct.pc = "llm"
    /\ \E c \in provider.texts :
        Becomes([Cur EXCEPT !.direct.pc = "got",
                            !.direct.response = [content |-> c, tool_calls |-> <<>>]])
    /\ UNCHANGED <<inbound, memory_md, history_md, provider>>

DirectLLMReturnToolCalls ==
    /\ direct.pc = "llm"
    /\ \E tcs \in SeqsUpTo(provider.tools, MaxCallsPerResponse), c \in provider.tool_texts :
        /\ Len(tcs) <= provider.budget
        /\ provider' = [provider EXCEPT !.budget = @ - Len(tcs)]
        /\ Becomes([Cur EXCEPT !.direct.pc = "got",
                    !.direct.response =
                        [content |-> c,
                         tool_calls |-> [i \in 1..Len(tcs) |->
                             [id |-> CallId(direct.llm_calls, i), name |-> tcs[i].name,
                              arguments |-> tcs[i].arguments]]]])
    /\ UNCHANGED <<inbound, memory_md, history_md>>

\* provider.chat raises: process_direct has no handler, its caller gets the exception.
DirectLLMRaise ==
    /\ direct.pc = "llm"
    /\ Becomes([Cur EXCEPT !.direct.pc = "idle", !.direct.returned = Append(@, RAISED)])
    /\ UNCHANGED <<inbound, memory_md, history_md, provider>>

DirectHandleToolCalls ==
    /\ direct.pc = "got"
    /\ direct.response.tool_calls # <<>>
    /\ Becomes(Swap(direct_return(handle_tool_calls(Swap(Cur)))))
    /\ UNCHANGED <<inbound, memory_md, history_md, provider>>

DirectHandleText ==
    /\ direct.pc = "got"
    /\ direct.response.tool_calls = <<>>
    /\ Becomes(Swap(direct_return(handle_text(Swap(Cur)))))
    /\ UNCHANGED <<inbound, memory_md, history_md, provider>>

DirectToolReturn ==
    /\ direct.pc = "tool"
    /\ \E result \in ToolResults(direct.response.tool_calls[direct.tc_idx]) :
        Becomes(Swap(direct_return(tool_return(Swap(Cur), result))))
    /\ UNCHANGED <<inbound, memory_md, history_md, provider>>

\* The calls of process_direct made while run() serves the bus: the session key of
\* the bus conversation, or the default one.
DirectCalls ==
    { [content |-> HELLO, session_key |-> "cli:u1", channel |-> "cli", chat_id |-> "u1"] }

InitDirect ==
    /\ InitStore({NoFile})
    /\ outbound = <<>> /\ tool_call_history = <<>> /\ sent_in_turn = FALSE
    /\ pc = "idle" /\ msg = NoMsg /\ sess = 0 /\ on_progress = "none" /\ messages = <<>>
    /\ iteration = 0 /\ final_content = None /\ tools_used = <<>> /\ forced = FALSE
    /\ response = NoResponse /\ tc_idx = 0 /\ llm_calls = 0 /\ calls = <<>> /\ executed = 0
    /\ browser = NoBrowser /\ discord = NoDiscord /\ agent = NoAgent
    /\ inbound = <<InboundMessage("cli", "user", "u1", HELLO)>>
    /\ \E todo \in SeqsUpTo(DirectCalls, MaxDirectCalls) :
           direct = [NoDirect EXCEPT !.todo = todo]
    /\ provider = [tools |-> {LIST_DIR}, texts |-> {TEXT_HI}, tool_texts |-> {None},
                   budget |-> MaxDirectToolCalls]

NextDirect ==
    \/ ProcessMessage
    \/ LLMReturnText
    \/ LLMReturnToolCalls
    \/ LLMRaise
    \/ HandleToolCalls
    \/ HandleText
    \/ ToolReturn
    \/ DirectCall
    \/ DirectLLMReturnText
    \/ DirectLLMReturnToolCalls
    \/ DirectLLMRaise
    \/ DirectHandleToolCalls
    \/ DirectHandleText
    \/ DirectToolReturn

SpecDirect == InitDirect /\ [][NextDirect]_vars

\* One turn of run() and one of process_direct whose model may repeat a tool call.
MaxDetectCalls == 3

InitDetect ==
    /\ InitStore({NoFile})
    /\ outbound = <<>> /\ tool_call_history = <<>> /\ sent_in_turn = FALSE
    /\ pc = "idle" /\ msg = NoMsg /\ sess = 0 /\ on_progress = "none" /\ messages = <<>>
    /\ iteration = 0 /\ final_content = None /\ tools_used = <<>> /\ forced = FALSE
    /\ response = NoResponse /\ tc_idx = 0 /\ llm_calls = 0 /\ calls = <<>> /\ executed = 0
    /\ browser = NoBrowser /\ discord = NoDiscord /\ agent = NoAgent
    /\ inbound = <<InboundMessage("cli", "user", "u1", HELLO)>>
    /\ \E todo \in SeqsUpTo(DirectCalls, MaxDirectCalls) :
           direct = [NoDirect EXCEPT !.todo = todo]
    /\ provider = [tools |-> {LIST_DIR}, texts |-> {TEXT_HI}, tool_texts |-> {None},
                   budget |-> MaxDetectCalls]

SpecDetect == InitDetect /\ [][NextDirect]_vars

\* ------------------------------------------------- the Playwright client
\* get_snapshot: `if aria_link_count < 10`
aria_min_links == 10
\* BrowserTool.execute: get_snapshot_dom(max_nodes=50), and the default of get_snapshot
max_nodes == 50

INTERACTIVE_ROLES ==
    {"button", "link", "textbox", "checkbox", "radio", "combobox", "listbox", "menuitem",
     "option", "searchbox", "slider", "spinbutton", "switch", "tab", "treeitem"}

\* seq[:n]
Take(seq, n) == SubSeq(seq, 1, IF Len(seq) < n THEN Len(seq) ELSE n)

\* The ref of the i-th element of a snapshot: f"e{i}"
Ref(i) == "e" \o ToString(i)

\* `ref in self._ref_map`, the map held as the sequence of the infos of e1, e2, ...
InRefMap(ref_map, ref) == \E i \in 1..Len(ref_map) : ref = Ref(i)
RefInfo(ref_map, ref) == ref_map[CHOOSE i \in 1..Len(ref_map) : ref = Ref(i)]

\* get_snapshot_dom on a connected client: the elements the script returns (at most
\* max_nodes of the page's clickable elements), each with its index as nth.
get_snapshot_dom(page, n) ==
    LET dom_elements == Take(page.dom, n)
    IN [i \in 1..Len(dom_elements) |->
           [role |-> dom_elements[i].role, name |-> dom_elements[i].text,
            tag |-> dom_elements[i].tag, href |-> dom_elements[i].href, nth |-> i - 1]]

\* The lines of an ARIA snapshot that get a ref (interactive=True).
aria_elements(page, n) ==
    Take(SelectSeq(page.aria, LAMBDA l : l.role \in INTERACTIVE_ROLES), n)

\* sum(1 for l in lines if '- link' in l or '- button' in l)
aria_link_count(page) ==
    Cardinality({ i \in 1..Len(page.aria) : page.aria[i].role \in {"link", "button"} })

\* get_snapshot(max_nodes) on a connected client: the ref map it leaves. The ARIA
\* snapshot is taken first; the DOM snapshot replaces it when it is empty or holds
\* fewer than aria_min_links link/button lines.
get_snapshot(page, n) ==
    IF page.aria = <<>> \/ aria_link_count(page) < aria_min_links
    THEN get_snapshot_dom(page, n)
    ELSE LET els == aria_elements(page, n)
         IN [i \in 1..Len(els) |->
                [role |-> els[i].role, name |-> els[i].name, tag |-> "", href |-> "",
                 nth |-> Cardinality({ j \in 1..(i - 1) :
                            els[j].role = els[i].role /\ els[j].name = els[i].name })]]

\* `class_result.split(" ").join(".")`: str.split returns a list and a list has no
\* join, so building the locator of the last strategy raises AttributeError.
split_join_raises == TRUE

\* click_by_ref from `info = self._ref_map[ref]` on: works holds the strategies whose
\* locator finds the element and whose click does not raise on this page, found
\* whether the script of the last strategy finds an enclosing note section. Every
\* strategy swallows what it raises and the next one is tried.
click_ladder(info, works, found) ==
    IF info.href # "" /\ "href" \in works
    THEN [success |-> TRUE, method |-> "href"]
    ELSE IF info.name # "" /\ info.role # "" /\ "getByRole" \in works
    THEN [success |-> TRUE, method |-> "getByRole"]
    ELSE IF info.name # "" /\ info.role # "" /\ "getByRole-inexact" \in works
    THEN [success |-> TRUE, method |-> "getByRole-inexact"]
    ELSE IF info.tag = "section" /\ "section-note-item" \in works
    THEN [success |-> TRUE, method |-> "section-note-item"]
    ELSE IF info.name # "" /\ "getByText" \in works
    THEN [success |-> TRUE, method |-> "getByText"]
    ELSE IF info.role # "" /\ "role-only" \in works
    THEN [success |-> TRUE, method |-> "role-only"]
    ELSE IF info.tag = "section" /\ "section-note-item" \in works
    THEN [success |-> TRUE, method |-> "section-note-item"]
    ELSE IF info.name # "" /\ found /\ ~split_join_raises /\ "closest-section" \in works
    THEN [success |-> TRUE, method |-> "closest-section"]
    ELSE [success |-> FALSE, method |-> "all_strategies_failed"]

\* `ref.startswith('e')` on the refs of the scenarios
StartsWithE(ref) == \E i \in 1..max_nodes : ref = Ref(i)

\* PlaywrightClient.click_by_ref(ref): the ref map it leaves and the dict it returns.
click_by_ref(b, ref, env) ==
    IF b.client # "connected"
    THEN [ref_map |-> b.ref_map, success |-> FALSE, method |-> "Not connected"]
    ELSE IF env.outcome = "raised"
    THEN [ref_map |-> b.ref_map, success |-> FALSE, method |-> "exception"]
    ELSE IF ~StartsWithE(ref)
    THEN [ref_map |-> b.ref_map, success |-> FALSE, method |-> "Invalid ref format"]
    ELSE LET ref_map == IF b.ref_map = <<>> THEN get_snapshot(env.page, max_nodes)
                        ELSE b.ref_map
         IN IF ~InRefMap(ref_map, ref)
            THEN [ref_map |-> ref_map, success |-> FALSE, method |-> "not found in snapshot"]
            ELSE LET r == click_ladder(RefInfo(ref_map, ref), env.works, env.found)
                 IN [ref_map |-> ref_map, success |-> r.success, method |-> r.method]

\* ------------------------------------------------- BrowserTool.execute
\* What execute returns: the token the string begins with, the click method it
\* reports, and whether the operation asked for was carried out.
Ret(b, prefix, ok) ==
    [b |-> b, result |-> [prefix |-> prefix, method |-> "", succeeded |-> ok]]

\* What a method of the client returns: {"error": "Not connected"} without a
\* connection, else what the page makes of it.
Outcome(b, env) == IF b.client # "connected" /\ env.outcome = "success" THEN "error"
                   ELSE env.outcome

\* `if result.get("success"): return f"<ok> ..."` / `return f"[FAILED] ..."`, and the
\* `except Exception` of execute.
Reported(b, env, ok) ==
    CASE Outcome(b, env) = "success" -> Ret(b, ok, TRUE)
      [] Outcome(b, env) = "error" -> Ret(b, "[FAILED]", FALSE)
      [] OTHER -> Ret(b, "[ERROR]", FALSE)

\* A branch that returns the same string whatever the client answered.
Unchecked(b, env, ok) ==
    IF env.outcome = "raised" THEN Ret(b, "[ERROR]", FALSE)
    ELSE Ret(b, ok, Outcome(b, env) = "success")

\* The ref-based click of the click and act branches.
click_branch(b, ref, env) ==
    LET r == click_by_ref(b, ref, env)
        b1 == [b EXCEPT !.ref_map = r.ref_map]
    IN [b |-> b1,
        result |-> [prefix |-> IF r.success THEN "[VERIFIED]" ELSE "[FAILED]",
                    method |-> r.method, succeeded |-> r.success]]

\* The actions handled before a client is needed.
ManagementActions == {"start", "stop", "status", "profiles"}

\* execute for start, stop, status and profiles; outcome is what the BrowserManager
\* answers (for status: running or not).
execute_management(b, call, env) ==
    CASE env.outcome = "raised" -> Ret(b, "[ERROR]", FALSE)
      [] call.action = "start" ->
            Ret(b, IF env.outcome = "success" THEN "[VERIFIED]" ELSE "[FAILED]",
                env.outcome = "success")
      [] call.action = "stop" ->
            IF env.outcome = "success"
            THEN Ret([b EXCEPT !.client = "none", !.ref_map = <<>>], "[VERIFIED]", TRUE)
            ELSE Ret(b, "[FAILED]", FALSE)
      [] call.action = "status" ->
            Ret(b, IF env.outcome = "success" THEN "[BROWSER RUNNING]"
                   ELSE "[BROWSER OFFLINE]", TRUE)
      [] OTHER -> Ret(b, "[PROFILES]", TRUE)

\* _get_client: the Playwright client is created on first use and kept even when
\* its connect raised.
get_client(b, env) ==
    IF b.client # "none" THEN b
    ELSE [b EXCEPT !.client = IF env.connect = "ok" THEN "connected" ELSE "unconnected",
                   !.ref_map = <<>>]

\* execute for the actions that use the client, the client at hand.
execute_action(b, call, env) ==
    LET a == call.action
        given == call.given
    IN CASE a \in {"navigate", "open"} ->
                IF "url" \notin given THEN Ret(b, "Error:", FALSE)
                ELSE Reported(b, env, "[VERIFIED]")
         [] a = "search" -> Unchecked(b, env, "[VERIFIED]")
         [] a = "press" ->
                IF "key" \notin given THEN Ret(b, "Error:", FALSE)
                ELSE Unchecked(b, env, "[VERIFIED]")
         [] a = "tabs" -> Unchecked(b, env, "[TABS]")
         [] a \in {"new_tab", "switch_tab", "close_tab", "scroll", "resize", "trace"} ->
                Reported(b, env, "[VERIFIED]")
         [] a = "hover" ->
                IF given \cap {"ref", "key"} = {} THEN Ret(b, "Error:", FALSE)
                ELSE Reported(b, env, "[VERIFIED]")
         [] a = "evaluate" ->
                IF "expression" \notin given THEN Ret(b, "Error:", FALSE)
                ELSE Reported(b, env, "[RESULT]")
         [] a = "cookies" -> Reported(b, env, "[COOKIES]")
         [] a = "storage" -> Reported(b, env, "[LOCAL STORAGE]")
         [] a = "wait" ->
                IF "url" \notin given
                THEN IF env.outcome = "raised" THEN Ret(b, "[ERROR]", FALSE)
                     ELSE Ret(b, "[FAILED]", FALSE)
                ELSE Reported(b, env, "[VERIFIED]")
         [] a = "console" -> Reported(b, env, "[CONSOLE]")
         [] a = "errors" -> Reported(b, env, "[ERRORS]")
         [] a = "download" ->
                IF "url" \notin given THEN Ret(b, "Error:", FALSE)
                ELSE Reported(b, env, "[VERIFIED]")
         [] a = "upload" ->
                IF "selector" \notin given \/ "path" \notin given
                THEN Ret(b, "Error:", FALSE)
                ELSE Reported(b, env, "[VERIFIED]")
         [] a = "screenshot" -> Reported(b, env, "Screenshot")
         [] a = "get_text" -> Unchecked(b, env, "[PAGE CONTENT]")
         [] a = "snapshot" ->
                IF Outcome(b, env) # "success" THEN Ret(b, "[ERROR]", FALSE)
                ELSE Ret([b EXCEPT !.ref_map = get_snapshot_dom(env.page, max_nodes)],
                         "[PAGE SNAPSHOT with refs]", TRUE)
         [] a = "act" ->
                IF "ref" \in given THEN click_branch(b, call.ref, env)
                ELSE Ret(b, "Error:", FALSE)
         [] a = "click" ->
                IF given \cap {"ref", "key"} # {} THEN click_branch(b, call.ref, env)
                ELSE IF "selector" \in given THEN Reported(b, env, "[VERIFIED]")
                ELSE Ret(b, "Error:", FALSE)
         [] a = "type" ->
                IF given \cap {"ref", "selector"} # {} THEN Reported(b, env, "[VERIFIED]")
                ELSE Ret(b, "Error:", FALSE)
         [] a = "close" -> Ret(b, "Browser", TRUE)
         [] OTHER -> Ret(b, "Unknown", FALSE)

\* BrowserTool.execute(action, **kwargs)
execute(b, call, env) ==
    IF call.action \in ManagementActions THEN execute_management(b, call, env)
    ELSE IF b.client = "none" /\ env.connect # "ok"
    THEN Ret(get_client(b, env), "[ERROR]", FALSE)
    ELSE execute_action(get_client(b, env), call, env)

\* ------------------------------------------------- the browser scenario
Repeat(x, n) == [i \in 1..n |-> x]

\* A results page: the accessibility tree lists its links, the DOM its note cards.
RichPage ==
    [aria |-> Repeat([role |-> "link", name |-> "item"], aria_min_links)
                \o << [role |-> "textbox", name |-> "search"] >>,
     dom |-> << [tag |-> "section", role |-> "section", text |-> "note", href |-> ""],
                [tag |-> "a", role |-> "a", text |-> "item", href |-> "/explore/1"] >>]

\* A page whose accessibility tree holds few links.
PoorPage ==
    [aria |-> << [role |-> "link", name |-> "home"], [role |-> "button", name |-> "ok"],
                 [role |-> "heading", name |-> "title"] >>,
     dom |-> << [tag |-> "a", role |-> "a", text |-> "home", href |-> "/home"],
                [tag |-> "button", role |-> "button", text |-> "ok", href |-> ""],
                [tag |-> "section", role |-> "section", text |-> "", href |-> ""] >>]

\* A page without an accessibility tree.
BarePage ==
    [aria |-> <<>>,
     dom |-> << [tag |-> "a", role |-> "a", text |-> "", href |-> "/x"] >>]

Pages == {RichPage, PoorPage, BarePage}

Outcomes == {"success", "error", "raised"}

\* The locator strategies of click_by_ref by the method each reports, in the order
\* of their first attempt; on a page, all from some point of the ladder on work.
Ladder ==
    <<"href", "getByRole", "getByRole-inexact", "section-note-item", "getByText",
      "role-only", "closest-section">>
WorkSets == { { Ladder[i] : i \in k..Len(Ladder) } : k \in 1..(Len(Ladder) + 1) }

ClientActions ==
    {"navigate", "open", "search", "press", "tabs", "new_tab", "switch_tab", "close_tab",
     "hover", "scroll", "resize", "evaluate", "cookies", "storage", "wait", "console",
     "errors", "download", "upload", "trace", "screenshot", "get_text", "type", "close",
     "bogus"}

\* The parameters a call of an action comes with.
Givens(a) ==
    CASE a \in {"navigate", "open", "search", "download", "wait"} -> {{}, {"url"}}
      [] a = "press" -> {{}, {"key"}}
      [] a = "hover" -> {{}, {"ref"}, {"key"}}
      [] a = "evaluate" -> {{}, {"expression"}}
      [] a = "upload" -> {{}, {"selector"}, {"selector", "path"}}
      [] a = "type" -> {{}, {"ref"}, {"selector"}}
      [] OTHER -> {{}}

Call(a, given, ref) == [action |-> a, given |-> given, ref |-> ref]

\* The calls that click by ref, and the other calls of click and act.
RefClickCalls ==
    { Call("click", {"ref"}, r) : r \in {Ref(1), Ref(2), Ref(aria_min_links + 2), "x1"} }
    \cup { Call("click", {"key"}, Ref(1)), Call("act", {"ref"}, Ref(1)) }
OtherClickCalls ==
    { Call("click", {"selector"}, ""), Call("click", {}, ""), Call("act", {}, "") }

Env(outcome, connect, page, works) ==
    [outcome |-> outcome, connect |-> connect, page |-> page, works |-> works,
     found |-> "closest-section" \in works]

\* connect is called only when there is no client yet.
Connects == IF browser.client = "none" THEN {"ok", "raised"} ELSE {"ok"}

\* One call of execute.
Executes(call, env) ==
    LET r == execute(browser, call, env)
    IN /\ Becomes([Cur EXCEPT !.browser =
                        [r.b EXCEPT !.last = << [call |-> call, env |-> env,
                                                 result |-> r.result] >>]])
       /\ UNCHANGED <<inbound, memory_md, history_md, provider>>

ExecuteManagement ==
    \E a \in ManagementActions, o \in Outcomes :
        Executes(Call(a, {}, ""), Env(o, "ok", BarePage, {}))

ExecuteAction ==
    \E a \in ClientActions, o \in Outcomes, c \in Connects :
        \E given \in Givens(a) :
            Executes(Call(a, given, ""), Env(o, c, BarePage, {}))

ExecuteSnapshot ==
    \E page \in Pages, o \in Outcomes, c \in Connects :
        Executes(Call("snapshot", {}, ""), Env(o, c, page, {}))

ExecuteClick ==
    \E call \in RefClickCalls, works \in WorkSets, o \in {"success", "raised"},
       c \in Connects :
        \E page \in IF browser.ref_map = <<>> THEN Pages ELSE {BarePage} :
            Executes(call, Env(o, c, page, works))

ExecuteClickOther ==
    \E call \in OtherClickCalls, o \in Outcomes, c \in Connects :
        \E page \in {BarePage} :
            Executes(call, Env(o, c, page, {}))

InitBrowser ==
    /\ InitStore({NoFile})
    /\ InitLoopState
    /\ inbound = <<>>
    /\ provider = [tools |-> {}, texts |-> {}, tool_texts |-> {}, budget |-> 0]

NextBrowser ==
    \/ ExecuteManagement
    \/ ExecuteAction
    \/ ExecuteSnapshot
    \/ ExecuteClick
    \/ ExecuteClickOther

SpecBrowser == InitBrowser /\ [][NextBrowser]_vars

\* ------------------------------------------------- click_with_retry
MaxRetries == 3

\* PlaywrightClient.scroll(x, y): window.scrollTo(x, y) on a connected client.
scroll(b, x, y) == IF b.client = "connected" THEN [b EXCEPT !.scroll_y = y] ELSE b

\* click_with_retry(ref, max_retries) up to its first click_by_ref; with an empty
\* range the for loop is skipped and `return result` reads an unbound local.
click_with_retry(b, ref, max_retries) ==
    LET f == [NoRetry EXCEPT !.ref = ref, !.max_retries = max_retries]
    IN [b EXCEPT !.retry = IF max_retries > 0 THEN [f EXCEPT !.pc = "click"]
                           ELSE [f EXCEPT !.pc = "raised"]]

\* One iteration of the for loop: click_by_ref has returned r.
retry_iteration(b, r) ==
    LET f == [b.retry EXCEPT !.seen = Append(@, b.scroll_y), !.results = Append(@, r),
                             !.result = <<r>>]
    IN IF r.success THEN [b EXCEPT !.retry = [f EXCEPT !.pc = "returned"]]
       ELSE IF f.attempt < f.max_retries - 1
            THEN [scroll(b, 0, 300) EXCEPT !.retry = [f EXCEPT !.attempt = @ + 1]]
            ELSE [b EXCEPT !.retry = [f EXCEPT !.pc = "returned"]]

ClickWithRetry ==
    /\ browser.client # "none"
    /\ browser.retry.pc = "idle"
    /\ \E ref \in {"e1", "e2"}, max_retries \in 0..MaxRetries :
          Becomes([Cur EXCEPT !.browser = click_with_retry(browser, ref, max_retries)])
    /\ UNCHANGED <<inbound, memory_md, history_md, provider>>

RetryIteration ==
    /\ browser.retry.pc = "click"
    /\ \E works \in WorkSets, o \in {"success", "raised"} :
          LET r == click_by_ref(browser, browser.retry.ref, Env(o, "ok", PoorPage, works))
          IN Becomes([Cur EXCEPT !.browser =
                        retry_iteration(browser, [success |-> r.success, method |-> r.method])])
    /\ UNCHANGED <<inbound, memory_md, history_md, provider>>

\* A connected client that has taken a snapshot of a page.
InitRetry ==
    /\ InitStore({NoFile})
    /\ InitTurnState
    /\ agent = NoAgent
    /\ inbound = <<>>
    /\ provider = [tools |-> {}, texts |-> {}, tool_texts |-> {}, budget |-> 0]

NextRetry ==
    \/ ExecuteSnapshot
    \/ ClickWithRetry
    \/ RetryIteration

SpecRetry == InitRetry /\ [][NextRetry]_vars

\* ------------------------------------------------- channels/discord.py
\* A str is the sequence of its characters. The characters of the scenarios: two
\* letters and the two whitespace characters _split_message looks for.
Chars == {"a", "b", " ", "\n"}
WHITESPACE == {" ", "\n"}

MaxContentLen == 5
MaxSplitLen == 3

\* str.rfind(ch): the highest index (from 0) of ch in s, -1 when there is none.
rfind(s, ch) ==
    LET I == { i \in 1..Len(s) : s[i] = ch }
    IN IF I = {} THEN -1 ELSE (CHOOSE i \in I : \A j \in I : j <= i) - 1

\* Drops the first character, whatever it is.
drop_first(s) == IF s = <<>> THEN s ELSE Tail(s)

\* str.lstrip()
RECURSIVE lstrip(_)
lstrip(s) == IF s # <<>> /\ s[1] \in WHITESPACE THEN lstrip(Tail(s)) ELSE s

\* A cut that ignores line breaks and spaces.
cut_at_max_len(content, max_len) == max_len

\* _split_message: pos, for content longer than max_len.
cut_pos(content, max_len) ==
    LET cut == py_slice(content, 0, max_len)
        nl == rfind(cut, "\n")
        sp == IF nl <= 0 THEN rfind(cut, " ") ELSE nl
    IN IF sp <= 0 THEN max_len ELSE sp

\* _split_message(content, max_len) up to the while loop.
split_enter(d, content, max_len) ==
    LET e == [d EXCEPT !.original = content, !.max_len = max_len, !.content = content,
                       !.chunks = <<>>]
    IN IF content = <<>> THEN [e EXCEPT !.pc = "split_returned"]
       ELSE IF Len(content) <= max_len
            THEN [e EXCEPT !.pc = "split_returned", !.chunks = <<content>>]
            ELSE [e EXCEPT !.pc = "split"]

\* One test of `while content:` and the iteration it starts.
split_iteration(d) ==
    IF d.content = <<>> THEN [d EXCEPT !.pc = "split_returned"]
    ELSE IF Len(d.content) <= d.max_len
         THEN [d EXCEPT !.pc = "split_returned", !.chunks = Append(@, d.content)]
         ELSE LET pos == cut_pos(d.content, d.max_len)
              IN [d EXCEPT !.chunks = Append(@, py_slice(d.content, 0, pos)),
                           !.content = lstrip(py_slice(d.content, pos, Len(d.content)))]

SplitMessage ==
    /\ discord.pc = "idle"
    /\ \E n \in 0..MaxContentLen, max_len \in 1..MaxSplitLen :
         \E content \in [1..n -> Chars] :
            Becomes([Cur EXCEPT !.discord = split_enter(discord, content, max_len)])
    /\ UNCHANGED <<inbound, memory_md, history_md, provider>>

SplitIteration ==
    /\ discord.pc = "split"
    /\ Becomes([Cur EXCEPT !.discord = split_iteration(discord)])
    /\ UNCHANGED <<inbound, memory_md, history_md, provider>>

InitDiscord ==
    /\ InitStore({NoFile})
    /\ InitLoopState
    /\ inbound = <<>>
    /\ provider = [tools |-> {}, texts |-> {}, tool_texts |-> {}, budget |-> 0]

NextSplit ==
    \/ SplitMessage
    \/ SplitIteration

SpecSplit == InitDiscord /\ [][NextSplit]_vars

\* _split_message(content, max_len) as one call.
RECURSIVE split_run(_)
split_run(d) == IF d.pc = "split" THEN split_run(split_iteration(d)) ELSE d
split_message(content, max_len) == split_run(split_enter(NoDiscord, content, max_len)).chunks

MAX_MESSAGE_LEN == 2000
MaxLines == 2

\* A line of msg.content: its characters (text), the marker the if/elif chain of send
\* finds in it first ("" when none), the path the regular expression or the replace
\* calls of that branch extract from it (None when the expression does not match)
\* and whether that path is local (begins with / or holds ~). The two markers in
\* Chinese are written in pinyin.
Line(text, marker, path, local) ==
    [text |-> text, marker |-> marker, path |-> path, local |-> local]
HI_LINE == Line(<<"h", "i">>, "", None, FALSE)
LONG_LINE == Line(Repeat("a", 1200), "", None, FALSE)
IMAGE_MEDIA_LINE == Line(<<"[", "M", "]">>, "[IMAGE_MEDIA:", "/tmp/a.png", TRUE)
IMAGE_FILE_LINE == Line(<<"[", "F", "]">>, "[IMAGE_FILE:", "/tmp/b.png", TRUE)
SAVED_PNG_LINE == Line(<<"S", "1">>, "Saved to:", "/tmp/c.png", TRUE)
SAVED_PDF_LINE == Line(<<"S", "2">>, "Saved to:", None, FALSE)
MD_LOCAL_LINE == Line(<<"!", "1">>, "![", "/tmp/d.png", TRUE)
MD_REMOTE_LINE == Line(<<"!", "2">>, "![", "http://x/e.png", FALSE)
Lines ==
    {HI_LINE, LONG_LINE, IMAGE_MEDIA_LINE, IMAGE_FILE_LINE, SAVED_PNG_LINE, SAVED_PDF_LINE,
     MD_LOCAL_LINE, MD_REMOTE_LINE}

\* send: the loop over msg.content.split("\n"), one line: the path appended to
\* image_paths (<<>> when none) and whether the line is appended to content_parts.
scan_line(line) ==
    IF line.marker \in {"[IMAGE_MEDIA:", "[IMAGE_FILE:"}
    THEN [paths |-> <<line.path>>, kept |-> FALSE]
    ELSE IF line.marker \in {"[Saved to]", "Saved to:", "baocun weizhi", "tupian yi baocun"}
    THEN [paths |-> IF line.path # None THEN <<line.path>> ELSE <<>>, kept |-> FALSE]
    ELSE IF line.marker = "!["
    THEN [paths |-> IF line.path # None /\ line.local THEN <<line.path>> ELSE <<>>,
          kept |-> FALSE]
    ELSE [paths |-> <<>>, kept |-> TRUE]

\* A loop that keeps every line it takes no path from.
scan_line_keeping(line) ==
    [paths |-> scan_line(line).paths, kept |-> scan_line(line).paths = <<>>]

\* "\n".join(parts)
join(parts) ==
    LET F[i \in 0..Len(parts)] ==
            IF i = 0 THEN <<>>
            ELSE IF i = 1 THEN parts[1].text
            ELSE F[i - 1] \o <<"\n">> \o parts[i].text
    IN F[Len(parts)]

\* str.strip()
RECURSIVE rstrip(_)
rstrip(s) == IF s # <<>> /\ s[Len(s)] \in WHITESPACE THEN rstrip(SubSeq(s, 1, Len(s) - 1)) ELSE s
strip(s) == rstrip(lstrip(s))

\* send after the images: content is joined and stripped (no kept line holds
\* "[Saved to]", so replace finds nothing) and split; the finally clause stops typing.
send_text(d) ==
    LET content == strip(join(d.content_parts))
    IN IF content = <<>> THEN [d EXCEPT !.pc = "sent", !.typing = FALSE]
       ELSE [d EXCEPT !.pc = "post", !.content = content,
                      !.chunks = split_message(content, MAX_MESSAGE_LEN),
                      !.i = 0, !.attempt = 0]

\* send(msg) up to its first await.
send(d, lines, reply_to) ==
    LET S[k \in 0..Len(lines)] ==
            IF k = 0 THEN [image_paths |-> <<>>, content_parts |-> <<>>]
            ELSE LET r == scan_line(lines[k])
                 IN [image_paths |-> S[k - 1].image_paths \o r.paths,
                     content_parts |-> IF r.kept THEN Append(S[k - 1].content_parts, lines[k])
                                       ELSE S[k - 1].content_parts]
        e == [NoDiscord EXCEPT !.lines = lines, !.reply_to = reply_to, !.typing = TRUE,
                               !.image_paths = S[Len(lines)].image_paths,
                               !.content_parts = S[Len(lines)].content_parts]
    IN IF e.image_paths = <<>> THEN send_text(e) ELSE [e EXCEPT !.pc = "upload"]

\* One image is posted; whatever the outcome, send goes on.
upload(d, outcome) ==
    LET e == [d EXCEPT !.uploads = Append(@, [path |-> d.image_paths[Len(d.uploads) + 1],
                                               outcome |-> outcome])]
    IN IF Len(e.uploads) = Len(e.image_paths) THEN send_text(e) ELSE e

\* _send_payload returns to send: the next chunk on True, break on False.
payload_sent(d, ok) ==
    IF ok /\ d.i + 1 < Len(d.chunks) THEN [d EXCEPT !.i = @ + 1, !.attempt = 0]
    ELSE [d EXCEPT !.pc = "sent", !.typing = FALSE]

ATTEMPTS == 3

\* A loop that gives up after the first failure.
next_attempt_none(d) == payload_sent(d, FALSE)

\* for attempt in range(3): the loop goes on when another attempt is left.
next_attempt(d) ==
    IF d.attempt + 1 < ATTEMPTS THEN [d EXCEPT !.attempt = @ + 1] ELSE payload_sent(d, FALSE)

\* _send_payload: one POST of chunks[i] and what follows its response. retry_after is
\* -1 when the 429 body has no such key.
post(d, resp) ==
    LET e == [d EXCEPT !.posts = Append(@, [chunk |-> d.i, attempt |-> d.attempt,
                                            status |-> resp.status,
                                            retry_after |-> resp.retry_after,
                                            reference |-> d.i = 0 /\ d.reply_to # None])]
    IN IF resp.status = 429
       THEN next_attempt([e EXCEPT !.sleeps = Append(@, IF resp.retry_after = -1 THEN 1
                                                        ELSE resp.retry_after)])
       ELSE IF resp.status = 200 THEN payload_sent(e, TRUE)
       ELSE IF d.attempt = 2 THEN next_attempt(e)
       ELSE next_attempt([e EXCEPT !.sleeps = Append(@, 1)])

\* What the REST API answers: 0 stands for a request that raises.
Responses ==
    {[status |-> 200, retry_after |-> -1], [status |-> 429, retry_after |-> 3],
     [status |-> 429, retry_after |-> -1], [status |-> 500, retry_after |-> -1],
     [status |-> 0, retry_after |-> -1]}

Send ==
    /\ discord.pc = "idle"
    /\ \E lines \in SeqsUpTo(Lines, MaxLines), reply_to \in {None, "m1"} :
          Becomes([Cur EXCEPT !.discord = send(discord, lines, reply_to)])
    /\ UNCHANGED <<inbound, memory_md, history_md, provider>>

Upload ==
    /\ discord.pc = "upload"
    /\ \E outcome \in {200, 400, 0} :
          Becomes([Cur EXCEPT !.discord = upload(discord, outcome)])
    /\ UNCHANGED <<inbound, memory_md, history_md, provider>>

Post ==
    /\ discord.pc = "post"
    /\ \E resp \in Responses :
          Becomes([Cur EXCEPT !.discord = post(discord, resp)])
    /\ UNCHANGED <<inbound, memory_md, history_md, provider>>

NextSend ==
    \/ Send
    \/ Upload
    \/ Post

SpecSend == InitDiscord /\ [][NextSend]_vars

\* ------------------------------------------------- _connect_mcp
\* A guard that does not look at _mcp_connecting.
connect_guard_no_latch(a) == a.mcp_connected \/ a.mcp_servers = {}

\* if self._mcp_connected or self._mcp_connecting or not self._mcp_servers: return
connect_guard(a) == a.mcp_connected \/ a.mcp_connecting \/ a.mcp_servers = {}

\* _connect_mcp called by c, up to its return or its first await.
connect_mcp(a, c) ==
    IF connect_guard(a) THEN [a EXCEPT !.calls = @ + 1]
    ELSE [a EXCEPT !.calls = @ + 1, !.attempts = @ + 1, !.mcp_connecting = TRUE,
                   !.mcp_stack = "open", !.at[c] = "connect"]

\* __aenter__ and connect_mcp_servers are over for c: they returned ("ok"), raised an
\* Exception ("raised": the except clause closes the stack) or the caller was
\* cancelled ("cancelled": only the finally clause runs).
connect_done(a, c, outcome) ==
    CASE outcome = "ok" ->
            [a EXCEPT !.mcp_connected = TRUE, !.mcp_connecting = FALSE, !.at[c] = "out"]
      [] outcome = "raised" ->
            IF a.mcp_stack # "none"
            THEN [a EXCEPT !.closes = @ + 1, !.at[c] = "aclose"]
            ELSE [a EXCEPT !.mcp_connecting = FALSE, !.at[c] = "out"]
      [] OTHER -> [a EXCEPT !.mcp_connecting = FALSE, !.at[c] = "out"]

\* aclose of the except clause is over, having returned or raised: the stack is
\* dropped and the finally clause runs.
close_done(a, c) ==
    [a EXCEPT !.mcp_stack = "none", !.mcp_connecting = FALSE, !.at[c] = "out"]

ConnectMcp ==
    /\ agent.calls < MaxMcpCalls
    /\ \E c \in McpCallers :
          /\ agent.at[c] = "out"
          /\ Becomes([Cur EXCEPT !.agent = connect_mcp(agent, c)])
    /\ UNCHANGED <<inbound, memory_md, history_md, provider>>

ConnectDone ==
    /\ \E c \in McpCallers, outcome \in {"ok", "raised", "cancelled"} :
          /\ agent.at[c] = "connect"
          /\ Becomes([Cur EXCEPT !.agent = connect_done(agent, c, outcome)])
    /\ UNCHANGED <<inbound, memory_md, history_md, provider>>

CloseDone ==
    /\ \E c \in McpCallers :
          /\ agent.at[c] = "aclose"
          /\ Becomes([Cur EXCEPT !.agent = close_done(agent, c)])
    /\ UNCHANGED <<inbound, memory_md, history_md, provider>>

InitMcp ==
    /\ InitStore({NoFile})
    /\ InitTurnState
    /\ inbound = <<>>
    /\ provider = [tools |-> {}, texts |-> {}, tool_texts |-> {}, budget |-> 0]
    /\ \E servers \in {{}, {"filesystem"}} : agent = [NoAgent EXCEPT !.mcp_servers = servers]

NextMcp ==
    \/ ConnectMcp
    \/ ConnectDone
    \/ CloseDone

SpecMcp == InitMcp /\ [][NextMcp]_vars

\* ------------------------------------------------- run() and stop()
MaxPolls == 2

\* stop()
Stop ==
    /\ agent.running
    /\ Becomes([Cur EXCEPT !.agent.running = FALSE])
    /\ UNCHANGED <<inbound, memory_md, history_md, provider>>

\* run(): the while test passes and wait_for(consume_inbound(), timeout=1.0) starts.
RunPoll ==
    /\ pc = "idle" /\ ~agent.returned /\ ~agent.waiting
    /\ keeps_running(agent)
    /\ agent.polls < MaxPolls
    /\ Becomes([Cur EXCEPT !.agent.waiting = TRUE])
    /\ UNCHANGED <<inbound, memory_md, history_md, provider>>

\* run(): no message within the second: asyncio.TimeoutError, continue.
PollTimeout ==
    /\ pc = "idle" /\ agent.waiting
    /\ inbound = <<>>
    /\ Becomes([Cur EXCEPT !.agent.waiting = FALSE,
                           !.agent.polls = IF agent.running THEN @ ELSE @ + 1])
    /\ UNCHANGED <<inbound, memory_md, history_md, provider>>

\* run(): the while test fails and run() returns.
RunReturn ==
    /\ pc = "idle" /\ ~agent.returned /\ ~agent.waiting
    /\ ~keeps_running(agent)
    /\ Becomes([Cur EXCEPT !.agent.returned = TRUE])
    /\ UNCHANGED <<inbound, memory_md, history_md, provider>>

InitRun ==
    /\ InitStore({NoFile})
    /\ InitLoopState
    /\ \/ inbound = <<>>
       \/ inbound \in SeqsUpTo({InboundMessage("cli", "user", "u1", HELLO)}, MaxInbound)
    /\ provider = [tools |-> {WEB_SEARCH}, texts |-> {TEXT_HI}, tool_texts |-> {None},
                   budget |-> 1]

\* wait_for(consume_inbound()) hands run() the message at the head of the queue: the
\* step of run() that takes it.
ConsumeInbound ==
    /\ pc = "idle" /\ inbound # <<>> /\ Consumes
    /\ inbound' = Tail(inbound)

\* The other steps of run() and of what it awaits.
RunSteps ==
    \/ RunPoll
    \/ PollTimeout
    \/ RunReturn
    \/ LLMReturnText
    \/ LLMReturnToolCalls
    \/ LLMRaise
    \/ HandleToolCalls
    \/ HandleText
    \/ ToolReturn

NextRun ==
    \/ Stop
    \/ ProcessMessage
    \/ RunSteps

\* The event loop runs run() whenever it can go on: a queued message is handed to a
\* pending consume, the timeout of wait_for fires, and the LLM and tool calls awaited
\* come back.
SpecRun == InitRun /\ [][NextRun]_vars /\ WF_vars(RunSteps) /\ WF_inbound(ConsumeInbound)

\* ------------------------------------------------- inbound messages with media
MediaInbound ==
    { [InboundMessage("cli", "user", "u1", c) EXCEPT !.media = media] :
        c \in {HELLO, SEARCH_CATS}, media \in {<<>>, <<"/tmp/cat.png">>, <<"/tmp/notes.txt">>} }

InitMedia ==
    /\ InitStore({NoFile})
    /\ InitLoopState
    /\ inbound \in SeqsUpTo(MediaInbound, MaxInbound)
    /\ provider = [tools |-> {WEB_SEARCH}, texts |-> {TEXT_HI}, tool_texts |-> {None},
                   budget |-> 1]

NextMedia ==
    \/ ProcessMessage
    \/ LLMReturnText
    \/ LLMReturnToolCalls
    \/ LLMRaise
    \/ HandleToolCalls
    \/ HandleText
    \/ ToolReturn

SpecMedia == InitMedia /\ [][NextMedia]_vars

\* ------------------------------------------------- a provider that never stops
WEB_SEARCH_AGAIN == [name |-> "web_search", arguments |-> << <<"q", "y">>, <<"n", "1">> >>]

\* provider.chat returns a response with one tool call, never the call it asked
\* for in its previous response.
LLMReturnOneToolCall ==
    /\ pc = "llm"
    /\ provider.budget >= 1
    /\ \E tc \in provider.tools :
        /\ calls # <<>> =>
              ~(/\ calls[Len(calls)].name = tc.name
                /\ calls[Len(calls)].arguments = tc.arguments)
        /\ provider' = [provider EXCEPT !.budget = @ - 1]
        /\ Becomes([Cur EXCEPT !.pc = "got",
                    !.response = [content |-> None,
                                  tool_calls |-> <<[id |-> CallId(llm_calls, 1),
                                                    name |-> tc.name,
                                                    arguments |-> tc.arguments]>>]])
    /\ UNCHANGED <<inbound, memory_md, history_md>>

InitIter ==
    /\ InitStore({NoFile})
    /\ InitLoopState
    /\ \E c \in {HELLO, SEARCH_CATS} : inbound = <<InboundMessage("cli", "user", "u1", c)>>
    /\ provider = [tools |-> {WEB_SEARCH, WEB_SEARCH_AGAIN}, texts |-> {TEXT_HI, TEXT_EMPTY},
                   tool_texts |-> {None}, budget |-> max_iterations + 1]

NextIter ==
    \/ ProcessMessage
    \/ LLMReturnText
    \/ LLMReturnOneToolCall
    \/ LLMRaise
    \/ HandleToolCalls
    \/ HandleText
    \/ ToolReturn

SpecIter == InitIter /\ [][NextIter]_vars

\* ============================================================= properties
Last(seq) == seq[Len(seq)]
Items(args) == { args[i] : i \in 1..Len(args) }
\* Two tool calls with the same name and the same arguments as dicts.
SameCall(a, b) == a.name = b.name /\ Items(a.arguments) = Items(b.arguments)
StartsWithLoopDetected(text) == \E n \in ToolNames : text = loop_message(n)

\* C1: when the third of three consecutive tool calls with the same name and the same
\* arguments up to key order is tracked, it is the turn's last call and is not
\* executed, the message list ends with a loop-detected tool result for it, the
\* final content starts with "[LOOP DETECTED]", the turn is over and no LLM call
\* follows the response that carried it; and a turn ends this way only when its
\* last three calls are the same, so a different call in between restarts the count.
C1_LoopDetection ==
    /\ \A i \in 3..Len(calls) :
        (SameCall(calls[i - 2], calls[i - 1]) /\ SameCall(calls[i - 1], calls[i])) =>
            /\ i = Len(calls)
            /\ pc = "idle"
            /\ executed = i - 1
            /\ Last(messages).role = "tool"
            /\ Last(messages).tool_call_id = calls[i].id
            /\ Last(messages).content = loop_message(calls[i].name)
            /\ StartsWithLoopDetected(final_content)
            /\ llm_calls = calls[i].llm_call
            /\ (i = 3 /\ \A k \in 1..3 : calls[k].llm_call = k) => llm_calls = 3
    /\ StartsWithLoopDetected(final_content) =>
            /\ Len(calls) >= 3
            /\ SameCall(calls[Len(calls) - 2], calls[Len(calls) - 1])
            /\ SameCall(calls[Len(calls) - 1], calls[Len(calls)])

\* The same call once per response, its keys in a different order the second time:
\* detected at the third response.
C1_Witness ==
    /\ pc = "idle"
    /\ Len(calls) = 3
    /\ llm_calls = 3
    /\ calls[1].arguments # calls[2].arguments
    /\ StartsWithLoopDetected(final_content)
    /\ executed = 2

\* Three identical calls inside one response: the third is not executed.
C1_WitnessOneResponse ==
    /\ pc = "idle"
    /\ Len(calls) = 3
    /\ llm_calls = 1
    /\ StartsWithLoopDetected(final_content)

\* A step of the text branch: a response without tool calls is handled.
TextStep == pc = "got" /\ response.tool_calls = <<>> /\ pc' # "got"
Retried ==
    /\ pc' = "llm"
    /\ llm_calls' = llm_calls + 1
    /\ iteration' = iteration + 1
    /\ final_content' = None
    /\ outbound' = outbound
    /\ objs' = objs /\ disk' = disk
Terminated ==
    /\ pc' = "idle"
    /\ llm_calls' = llm_calls
    /\ final_content' = strip_think(response.content)
    /\ Len(outbound') = Len(outbound) + 1

\* C2 as stated: a response without tool calls is discarded and the LLM is called
\* again exactly when the turn is forced, no tool has been used and the iteration
\* count is below 5; otherwise the turn terminates with the think-stripped text.
C2_AsStated ==
    [][TextStep =>
        IF forced /\ tools_used = <<>> /\ iteration < forced_max_retries
        THEN Retried ELSE Terminated]_vars

\* C2: a response without tool calls is discarded (nothing emitted, nothing kept as
\* final content, nothing stored) and the LLM is called again exactly when the turn
\* is forced, no tool has been used yet, the iteration count is below 5 and the
\* think-stripped text is not empty; in every other case, every non-forced turn
\* included, the turn terminates with the think-stripped text as the final content.
C2_TextRetry ==
    [][TextStep =>
        IF /\ forced /\ tools_used = <<>> /\ iteration < forced_max_retries
           /\ strip_think(response.content) # None
        THEN Retried ELSE Terminated]_vars

\* A forced turn on its third LLM call after two discarded texts.
C2_Witness ==
    /\ forced /\ pc = "llm" /\ iteration = 3 /\ llm_calls = 3
    /\ tools_used = <<>> /\ final_content = None /\ outbound = <<>>

\* A forced turn ended at its first, empty text.
C2_WitnessEmpty ==
    /\ forced /\ pc = "idle" /\ iteration = 1 /\ tools_used = <<>>
    /\ response.content \in {TEXT_EMPTY, TEXT_THINK_ONLY}
    /\ final_content = None

\* C3: for the content "please generate an image of a cat", a turn that ends with a
\* text answer and no tool call has made 5 LLM calls: every earlier text was
\* discarded and retried.
C3_ImageForcing ==
    (/\ msg.content = GEN_AN_IMAGE /\ pc = "idle"
     /\ calls = <<>> /\ final_content # None)
        => llm_calls = forced_max_retries

\* C4 as stated: after list_dir and then a text answer the session holds the user
\* message, the assistant message with the tool call, the tool result and the
\* final assistant message.
C4_Case ==
    /\ pc = "idle" /\ msg.channel = "cli"
    /\ Len(calls) = 1 /\ calls[1].name = "list_dir"
    /\ llm_calls = 2 /\ response.tool_calls = <<>> /\ final_content # None
C4_AsStated ==
    C4_Case =>
        LET m == objs[sess].messages IN
        /\ Len(m) = 4
        /\ m[1].role = "user" /\ m[2].role = "assistant"
        /\ m[3].role = "tool" /\ m[4].role = "assistant"
        /\ m[4].content = final_content

\* C4: after a turn in which the model first emits one tool call (list_dir) and then
\* a text answer, the session holds exactly the user message and the final assistant
\* message, which carries tools_used ["list_dir"], and is saved so; the assistant
\* message with the tool call and the tool result are only in the message list of
\* the turn's LLM calls; the outbound content is the final text.
C4_SessionAfterToolTurn ==
    C4_Case =>
        /\ objs[sess].messages =
              << [role |-> "user", content |-> msg.content, tools_used |-> <<>>],
                 [role |-> "assistant", content |-> final_content,
                  tools_used |-> <<"list_dir">>] >>
        /\ disk[session_key(msg)].exists
        /\ disk[session_key(msg)].messages = objs[sess].messages
        /\ \E i \in 1..(Len(messages) - 1) :
              /\ messages[i].role = "assistant"
              /\ Len(messages[i].tool_calls) = 1
              /\ messages[i].tool_calls[1].id = calls[1].id
              /\ messages[i + 1].role = "tool"
              /\ messages[i + 1].tool_call_id = calls[1].id
              /\ i + 1 = Len(messages)
        /\ Last(outbound).content = final_content
        /\ ~("_progress" \in Last(outbound).metadata)
        /\ tools_used = <<"list_dir">>

C4_Witness ==
    /\ C4_Case
    /\ msg.content = LIST_TMP
    /\ Last(messages).content = RESULT_FILES
    /\ final_content = TEXT_FILES
    /\ Len(objs[sess].messages) = 2

\* C5: for a non-slash message on a normal channel with no forcing keyword, answered
\* by non-empty text without tool calls, exactly one LLM call is made, the session
\* of channel:chat_id gains exactly the user message with the inbound content and
\* the assistant message with the reply, the session is saved in that state, and
\* one outbound with the inbound's channel and chat_id carries the reply.
C5_SimpleTurn ==
    [][(/\ TextStep /\ msg.channel # "system" /\ ~IsForced(msg.content)
        /\ calls = <<>> /\ strip_think(response.content) # None)
       => LET reply == strip_think(response.content)
              key == session_key(msg)
          IN /\ llm_calls = 1 /\ llm_calls' = 1
             /\ pc' = "idle"
             /\ objs'[sess].key = key
             /\ objs'[sess].messages = objs[sess].messages \o
                   << [role |-> "user", content |-> msg.content, tools_used |-> <<>>],
                      [role |-> "assistant", content |-> reply, tools_used |-> <<>>] >>
             /\ cache'[key] = sess
             /\ disk'[key].exists
             /\ disk'[key].messages = objs'[sess].messages
             /\ disk'[key].last_consolidated = objs'[sess].last_consolidated
             /\ Len(outbound') = Len(outbound) + 1
             /\ Last(outbound').channel = msg.channel
             /\ Last(outbound').chat_id = msg.chat_id
             /\ Last(outbound').content = reply]_vars

\* "hello" answered "hi" in a new session.
C5_Witness ==
    /\ pc = "idle" /\ msg.content = HELLO /\ msg.channel = "cli"
    /\ llm_calls = 1 /\ calls = <<>> /\ final_content = TEXT_HI
    /\ objs[sess].messages =
          << [role |-> "user", content |-> HELLO, tools_used |-> <<>>],
             [role |-> "assistant", content |-> TEXT_HI, tools_used |-> <<>>] >>
    /\ disk["cli:u1"].messages = objs[sess].messages
    /\ Last(outbound) = OutboundMessage("cli", "u1", TEXT_HI, {"message_id"})

\* C6: in every reachable state every session object, and every session file, has
\* last_consolidated at most the number of its messages: after foreground turns,
\* normal and archive consolidations, /new and the session tool's clear, however a
\* background consolidation interleaves with them.
C6_CursorWithinMessages ==
    /\ \A i \in 1..Len(objs) : objs[i].last_consolidated <= Len(objs[i].messages)
    /\ \A k \in Keys : disk[k].last_consolidated <= Len(disk[k].messages)

\* A window-triggered consolidation has advanced the cursor of a live session.
C6_Witness ==
    \E i \in 1..Len(objs) :
        /\ objs[i].last_consolidated > 0
        /\ objs[i].last_consolidated = Len(objs[i].messages) - memory_window \div 2

\* The session tool cleared the session while its consolidation awaited the LLM.
C6_WitnessClearedMeanwhile ==
    \E i \in 1..Len(objs) : objs[i].messages = <<>> /\ objs[i].last_consolidated < 0

\* The step that processes an inbound /new.
NewStep ==
    /\ pc = "idle" /\ inbound # <<>> /\ inbound' = Tail(inbound)
    /\ Head(inbound).channel # "system"
    /\ Lower(Strip(Head(inbound).content)) = "/new"

\* C7: processing an inbound "/new" (matched after trimming, case-insensitively)
\* leaves the session with zero messages and last_consolidated 0, saved in that
\* state and dropped from the cache; it replies "New session started. Memory
\* consolidation in progress." in the same step, in which the archive consolidation
\* of the snapshot is only scheduled and no LLM call is made or awaited.
C7_NewSession ==
    [][NewStep =>
        LET m == Head(inbound)
            key == session_key(m)
        IN /\ objs'[sess'].key = key
           /\ objs'[sess'].messages = <<>>
           /\ objs'[sess'].last_consolidated = 0
           /\ disk'[key] = [exists |-> TRUE, messages |-> <<>>, last_consolidated |-> 0]
           /\ cache'[key] = 0
           /\ outbound' = Append(outbound,
                                 OutboundMessage(m.channel, m.chat_id, NEW_SESSION_REPLY, {}))
           /\ pc' = "idle"
           /\ llm_calls' = llm_calls
           /\ Len(tasks') = Len(tasks) + 1
           /\ Last(tasks').kind = "archive" /\ Last(tasks').st = "created"
           /\ Last(tasks').key = key
           /\ Last(tasks').archive = get_or_create(Cur, key).objs[sess'].messages
           /\ memory_md' = memory_md /\ history_md' = history_md]_vars

\* " /NEW " has been answered while the archive of a non-empty session is still
\* to start.
C7_Witness ==
    /\ pc = "idle" /\ msg.content = SLASH_NEW_PADDED
    /\ Last(outbound).content = NEW_SESSION_REPLY
    /\ tasks # <<>> /\ Last(tasks).kind = "archive" /\ Last(tasks).st = "created"
    /\ Last(tasks).archive # <<>>
    /\ disk["cli:u1"] = [exists |-> TRUE, messages |-> <<>>, last_consolidated |-> 0]

\* The consolidations of key k that have started and not ended.
InProgress(k) == { i \in 1..Len(tasks) : tasks[i].key = k /\ tasks[i].st = "awaiting" }

\* C8: at any time at most one memory consolidation is in progress for a session
\* key, window-triggered and archive consolidations counted together.
C8_OneConsolidationPerKey ==
    \A k \in Keys : Cardinality(InProgress(k)) <= 1

\* The reply makes the consolidation fail or be abandoned: provider.chat raises, the
\* response is empty, the parsed result is no object, or a file write that the
\* reply leads to raises.
WritesHistory(reply) == reply.kind = "dict" /\ reply.history_entry # None
WritesMemory(reply, current_memory) ==
    /\ reply.kind = "dict" /\ reply.memory_update # None
    /\ Stringify(reply.memory_update) # current_memory
Fails(reply, current_memory) ==
    \/ reply.kind \in {"raise", "empty", "list"}
    \/ reply.raises = "append_history" /\ WritesHistory(reply)
    \/ reply.raises = "write_long_term" /\ WritesMemory(reply, current_memory)

\* The step that processes an inbound message that is no command and finds its
\* session over memory_window.
OverWindowStep ==
    /\ pc = "idle" /\ inbound # <<>> /\ inbound' = Tail(inbound)
    /\ Head(inbound).channel # "system"
    /\ Lower(Strip(Head(inbound).content)) \notin {"/new", "/help"}
    /\ LET s == get_or_create(Cur, session_key(Head(inbound)))
       IN Len(s.objs[s.sess].messages) > memory_window

\* C9: when a consolidation fails or is abandoned (the LLM call or a file write
\* raises, the response is empty, or the parsed result is not an object), the
\* session's last_consolidated is left as it was and the key that a window-triggered
\* consolidation had put in the consolidating set is removed from it; and a message
\* that finds its session over memory_window with the key not in the set schedules
\* a new consolidation.
C9_FailureLeavesCursor ==
    /\ [](\A i \in 1..Len(tasks), reply \in ConsolidationReplies :
            (tasks[i].st = "awaiting" /\ Fails(reply, tasks[i].current_memory))
            => LET f == finish_consolidation(tasks[i], reply)
               IN /\ f.objs = objs
                  /\ tasks[i].kind = "normal" => tasks[i].key \notin f.consolidating
                  /\ tasks[i].kind = "archive" => f.consolidating = consolidating)
    /\ [][(OverWindowStep /\ session_key(Head(inbound)) \notin consolidating)
            => /\ session_key(Head(inbound)) \in consolidating'
               /\ Len(tasks') = Len(tasks) + 1
               /\ Last(tasks').kind = "normal" /\ Last(tasks').st = "created"
               /\ Last(tasks').session = sess']_vars

\* The consolidation of the first turn failed, and the second message has scheduled
\* another one for the same session, its cursor still 0.
C9_Witness ==
    /\ pc = "llm" /\ Len(outbound) = 1 /\ inbound = <<>>
    /\ Len(tasks) = 1 /\ tasks[1].kind = "normal" /\ tasks[1].st = "created"
    /\ tasks[1].session = sess
    /\ objs[sess].last_consolidated = 0
    /\ Len(objs[sess].messages) = 2 * memory_window + 2
    /\ consolidating = {"cli:u1"}

\* C10: a consolidation that advances the cursor appends exactly one entry to
\* HISTORY and leaves MEMORY unchanged or replaced.
C10_HistoryPerConsolidation ==
    [][(/\ Len(tasks') < Len(tasks)
        /\ Len(objs') = Len(objs)
        /\ \E i \in 1..Len(objs) : objs'[i].last_consolidated > objs[i].last_consolidated)
       => Len(history_md') = Len(history_md) + 1]_vars

\* C11: when the message tool has emitted an out-of-band message during a turn, the
\* step that ends the turn with the model's text publishes nothing on the bus.
C11_FinalSuppressed ==
    [][(TextStep /\ pc' = "idle" /\ \E i \in 1..Len(tools_used) : tools_used[i] = "message")
       => outbound' = outbound]_vars

\* What a step publishes.
Published == SubSeq(outbound', Len(outbound) + 1, Len(outbound'))
IsProgress(m) == "_progress" \in m.metadata
TurnEnds == pc # "idle" /\ pc' = "idle"

\* C12: in every turn of run() the progress messages (metadata _progress) are
\* published before the turn's final message: progress is published only inside a
\* turn, with the inbound's metadata plus _progress, the step that ends a turn
\* publishes the final message last, and the final message carries the inbound's
\* metadata unaltered, without _progress.
C12_ProgressBeforeFinal ==
    [][/\ Len(outbound') >= Len(outbound)
       /\ SubSeq(outbound', 1, Len(outbound)) = outbound
       /\ \A i \in 1..Len(Published) :
            IsProgress(Published[i]) =>
                /\ pc = "got" /\ msg' = msg
                /\ Published[i].metadata = msg.metadata \cup {"_progress"}
                /\ Published[i].channel = msg.channel
                /\ Published[i].chat_id = msg.chat_id
                /\ TurnEnds => i < Len(Published)
       /\ TurnEnds =>
            /\ Published # <<>>
            /\ ~IsProgress(Last(Published))
            /\ Last(Published).metadata \subseteq msg.metadata
       /\ "_progress" \notin msg'.metadata]_vars

\* A turn has ended with its final message published after two progress messages.
C12_Witness ==
    /\ pc = "idle" /\ Len(outbound) >= 3
    /\ IsProgress(outbound[Len(outbound) - 2])
    /\ IsProgress(outbound[Len(outbound) - 1])
    /\ outbound[Len(outbound) - 2].content = TEXT_HI
    /\ ~IsProgress(Last(outbound))
    /\ Last(outbound).content = final_content
    /\ Last(outbound).metadata = msg.metadata

\* C13: two turns of one session never interleave: while a turn of run() is under
\* way (between its get_or_create and its save), no turn of process_direct on the
\* same session is under way, and conversely.
C13_TurnsDoNotInterleave ==
    ~(/\ pc # "idle" /\ direct.pc # "idle"
      /\ sess # 0 /\ direct.sess # 0
      /\ objs[sess].key = objs[direct.sess].key)

\* The step in which provider.chat raises instead of returning.
RaiseStep == pc = "llm" /\ pc' \notin {"llm", "got"}

\* C14: when the LLM call of a turn of run() raises, one outbound message with
\* content "Sorry, I encountered an error: <msg>" is published for the inbound being
\* processed, nothing else of the turn is stored, and run() is back at consuming
\* with the later inbound messages still queued.
C14_ProviderErrorRecovered ==
    [][RaiseStep =>
            /\ pc' = "idle"
            /\ outbound' = Append(outbound,
                  OutboundMessage(msg.channel, msg.chat_id,
                                  "Sorry, I encountered an error: " \o PROVIDER_ERROR, {}))
            /\ inbound' = inbound
            /\ disk' = disk]_vars

\* The first turn got the apology, the second one its answer.
C14_Witness ==
    /\ pc = "idle" /\ inbound = <<>> /\ Len(outbound) = 2
    /\ outbound[1].content = "Sorry, I encountered an error: " \o PROVIDER_ERROR
    /\ outbound[2].content = TEXT_HI
    /\ msg.channel = "cli"

\* C15: every outbound message published while a system-channel inbound with
\* chat_id "origin_channel:origin_chat_id" is processed is addressed to
\* origin_channel and origin_chat_id, the error reply included.
C15_SystemReplyToOrigin ==
    [][msg'.channel = "system" =>
        \A i \in 1..Len(Published) :
            /\ Published[i].channel = "cli"
            /\ Published[i].chat_id = "u1"]_vars

\* C16: in the message list of every LLM call, and in every other state of a turn,
\* every tool-role message comes after an assistant message whose tool_calls holds
\* the tool message's tool_call_id; this includes the loop-detected tool result.
C16_ToolResultAfterItsCall ==
    \A i \in 1..Len(messages) :
        messages[i].role = "tool" =>
            \E j \in 1..(i - 1) :
                /\ messages[j].role = "assistant"
                /\ \E k \in 1..Len(messages[j].tool_calls) :
                      messages[j].tool_calls[k].id = messages[i].tool_call_id

\* An LLM call is about to get a list with the results of two tool calls.
C16_Witness ==
    /\ pc = "llm" /\ Len(calls) = 2 /\ executed = 2
    /\ Last(messages).role = "tool"
    /\ Last(messages).tool_call_id = calls[2].id

\* The list ends with a loop-detected tool result.
C16_WitnessLoopDetected ==
    /\ pc = "idle" /\ messages # <<>>
    /\ Last(messages).role = "tool"
    /\ StartsWithLoopDetected(Last(messages).content)

\* C17: two tool calls get the same key from _track_tool_call whenever they have
\* the same name and the same arguments up to the order of the keys, and only
\* then; the history that loop detection counts holds that key.
C17_KeyIgnoresOrder ==
    /\ \A i, j \in 1..Len(calls) :
          SameCall(calls[i], calls[j])
          <=> call_key(calls[i].name, calls[i].arguments)
                = call_key(calls[j].name, calls[j].arguments)
    /\ calls # <<>> =>
          /\ tool_call_history # <<>>
          /\ Last(tool_call_history) = call_key(Last(calls).name, Last(calls).arguments)
    /\ \A a \in KeyToolCalls :
          \A b \in KeyOrders(a.arguments) :
              call_key(a.name, b) = call_key(a.name, a.arguments)

\* Three calls with the same arguments in three different key orders were counted
\* as three identical calls.
C17_Witness ==
    /\ Len(calls) = 3 /\ Len(tool_call_history) = 3
    /\ calls[1].arguments # calls[2].arguments
    /\ calls[2].arguments # calls[3].arguments
    /\ calls[1].arguments # calls[3].arguments
    /\ StartsWithLoopDetected(final_content)

\* The last call of execute clicked by ref on a connected client that holds the ref.
ClickedByRef ==
    /\ browser.last # <<>>
    /\ \/ browser.last[1].call.action = "click" /\ browser.last[1].call.given \cap {"ref", "key"} # {}
       \/ browser.last[1].call.action = "act" /\ "ref" \in browser.last[1].call.given
    /\ browser.client = "connected"
    /\ browser.last[1].env.outcome = "success"
    /\ InRefMap(browser.ref_map, browser.last[1].call.ref)

\* A strategy of the ladder applies to an element of the ref map.
Applies(strategy, info) ==
    CASE strategy = "href" -> info.href # ""
      [] strategy \in {"getByRole", "getByRole-inexact"} -> info.name # "" /\ info.role # ""
      [] strategy = "section-note-item" -> info.tag = "section"
      [] strategy \in {"getByText", "closest-section"} -> info.name # ""
      [] OTHER -> info.role # ""

\* C18: whatever the action, the string execute returns begins with "[VERIFIED]"
\* when the action succeeded and with "[FAILED]" or "[ERROR]" when it did not, a
\* missing parameter and an unknown action included.
C18_VerifiedOrFailed ==
    browser.last # <<>> =>
        IF browser.last[1].result.succeeded
        THEN browser.last[1].result.prefix = "[VERIFIED]"
        ELSE browser.last[1].result.prefix \in {"[FAILED]", "[ERROR]"}

\* C19: a click by ref succeeds with the first strategy, in the order href, role and
\* exact name, role and inexact name, section.note-item, text, role only, text to
\* ancestor, that applies to the element and works on the page, and fails only when
\* none of them does.
C19_ClickLadder ==
    ClickedByRef =>
        LET info == RefInfo(browser.ref_map, browser.last[1].call.ref)
            winners == { i \in 1..Len(Ladder) :
                            Applies(Ladder[i], info) /\ Ladder[i] \in browser.last[1].env.works }
        IN IF winners = {}
           THEN ~browser.last[1].result.succeeded /\ browser.last[1].result.prefix = "[FAILED]"
           ELSE /\ browser.last[1].result.succeeded
                /\ browser.last[1].result.prefix = "[VERIFIED]"
                /\ browser.last[1].result.method =
                       Ladder[CHOOSE i \in winners : \A j \in winners : i <= j]

\* C20: after a snapshot of the browser tool the refs are those of the accessibility
\* tree when it holds at least 10 link/button entries, and those of the DOM when it
\* holds fewer or is empty.
C20_SnapshotAccessibilityFirst ==
    (/\ browser.last # <<>>
     /\ browser.last[1].call.action = "snapshot"
     /\ browser.last[1].result.succeeded)
        => browser.ref_map = get_snapshot(browser.last[1].env.page, max_nodes)

\* ------------------------------------------------- _split_message
Concat(seqs) ==
    LET F[i \in 0..Len(seqs)] == IF i = 0 THEN <<>> ELSE F[i - 1] \o seqs[i]
    IN F[Len(seqs)]
NonWhitespace(s) == SelectSeq(s, LAMBDA c : c \notin {" ", "\n"})
\* The window content[:max_len] of a cut.
Window(d) == SubSeq(d.content, 1, d.max_len)
\* The highest index (from 0) of ch in the window that is at least `from`, -1 if none.
LastIn(d, ch, from) ==
    LET I == { i \in from..(d.max_len - 1) : Window(d)[i + 1] = ch }
    IN IF I = {} THEN -1 ELSE CHOOSE i \in I : \A j \in I : j <= i
\* Where the cut is due when line breaks and spaces count from index `from` on.
CutDue(d, from) ==
    IF LastIn(d, "\n", from) >= 0 THEN LastIn(d, "\n", from)
    ELSE IF LastIn(d, " ", from) >= 0 THEN LastIn(d, " ", from)
    ELSE d.max_len
\* An iteration of the while loop that cuts.
CutStep == discord.pc = "split" /\ Len(discord.content) > discord.max_len /\ discord' # discord
\* What _split_message has to have returned.
Returned(d) ==
    /\ \A i \in 1..Len(d.chunks) : d.chunks[i] # <<>> /\ Len(d.chunks[i]) <= d.max_len
    /\ d.pc = "split_returned" =>
          /\ d.original = <<>> => d.chunks = <<>>
          /\ (d.original # <<>> /\ Len(d.original) <= d.max_len) => d.chunks = <<d.original>>

\* C21 as amended: _split_message terminates (every iteration returns or leaves less
\* content), its chunks are non-empty and at most max_len long, content no longer than
\* max_len comes back as one unchanged chunk, empty content gives no chunk, and a cut
\* is made at the last line break of the window that is not its first character, else
\* at the last space that is not its first character, else at max_len.
C21_SplitMessage ==
    [][/\ Returned(discord')
       /\ (discord.pc = "split" /\ discord' # discord) =>
             \/ discord'.pc = "split_returned"
             \/ Len(discord'.content) < Len(discord.content)
       /\ CutStep =>
             discord'.chunks = Append(discord.chunks,
                                      SubSeq(discord.content, 1, CutDue(discord, 1)))]_vars

\* C21 as stated: the cut is at the last line break inside the window if there is one,
\* else at the last space, else at max_len.
C21_AsStated ==
    [][CutStep =>
          discord'.chunks = Append(discord.chunks,
                                   SubSeq(discord.content, 1, CutDue(discord, 0)))]_vars

\* A split of content longer than max_len whose window holds a line break and a later
\* space has returned its chunks.
C21_Witness ==
    /\ discord.pc = "split_returned"
    /\ Len(discord.chunks) >= 2
    /\ \E i, j \in 2..discord.max_len :
          i < j /\ discord.original[i] = "\n" /\ discord.original[j] = " "

\* orig is the chunks in order with nothing but whitespace between one chunk and the
\* next and after the last.
RECURSIVE WhitespaceApart(_, _)
WhitespaceApart(orig, chunks) ==
    IF chunks = <<>> THEN NonWhitespace(orig) = <<>>
    ELSE LET n == Len(chunks[1])
         IN /\ Len(orig) >= n
            /\ SubSeq(orig, 1, n) = chunks[1]
            /\ \E k \in 0..(Len(orig) - n) :
                  /\ NonWhitespace(SubSeq(orig, n + 1, n + k)) = <<>>
                  /\ WhitespaceApart(SubSeq(orig, n + k + 1, Len(orig)), Tail(chunks))

\* C22: the chunks _split_message returns, concatenated in order, are the content
\* with whitespace removed at chunk boundaries only: the non-whitespace characters
\* are the same in the same order, none dropped and none duplicated.
C22_ChunksKeepContent ==
    discord.pc = "split_returned" =>
        /\ NonWhitespace(Concat(discord.chunks)) = NonWhitespace(discord.original)
        /\ WhitespaceApart(discord.original, discord.chunks)

\* A split has returned several chunks and whitespace of the content is in none.
C22_Witness ==
    /\ discord.pc = "split_returned"
    /\ Len(discord.chunks) >= 2
    /\ Len(Concat(discord.chunks)) < Len(discord.original)
    /\ NonWhitespace(discord.original) # <<>>

\* ------------------------------------------------- DiscordChannel.send
\* The POSTs of _send_payload so far follow the retry rule: a 200 is followed by the
\* first attempt of the next chunk, any other answer by the next attempt of the same
\* chunk, no chunk has an attempt after its third; send is over exactly when the last
\* chunk got a 200 or a chunk failed three times, and goes on otherwise.
RetryRule(d) ==
    LET P == d.posts
    IN /\ \A k \in 1..Len(P) :
            /\ P[k].attempt \in 0..2
            /\ P[k].chunk \in 0..(Len(d.chunks) - 1)
            /\ Cardinality({ j \in 1..Len(P) : P[j].chunk = P[k].chunk }) <= 3
            /\ k < Len(P) =>
                  IF P[k].status = 200
                  THEN P[k + 1].chunk = P[k].chunk + 1 /\ P[k + 1].attempt = 0
                  ELSE P[k + 1].chunk = P[k].chunk /\ P[k + 1].attempt = P[k].attempt + 1
       /\ P # <<>> =>
            (d.pc = "sent" <=>
                \/ P[Len(P)].status = 200 /\ P[Len(P)].chunk = Len(d.chunks) - 1
                \/ P[Len(P)].status # 200 /\ P[Len(P)].attempt = 2)

\* C23: one payload is posted at most 3 times; a 429 is followed by a wait of its
\* retry_after seconds (1 when the body names none) before the next attempt; the first
\* 200 ends the payload with success, the third failure ends it with failure, and
\* after a failed chunk no later chunk of the message is posted.
C23_PayloadRetry ==
    [][/\ RetryRule(discord')
       /\ \A p \in [chunk : 0..2, attempt : 0..2, status : {429}, retry_after : {-1, 3},
                     reference : BOOLEAN] :
             discord'.posts = Append(discord.posts, p) =>
                 discord'.sleeps = Append(discord.sleeps,
                                          IF p.retry_after = -1 THEN 1 ELSE p.retry_after)]_vars

\* The first of two chunks was posted three times, the first time with a 429 naming
\* retry_after, and failed: send is over and the second chunk was never posted.
C23_Witness ==
    /\ discord.pc = "sent"
    /\ Len(discord.chunks) = 2
    /\ Len(discord.posts) = 3
    /\ discord.posts[1].status = 429 /\ discord.posts[1].retry_after = 3
    /\ discord.sleeps[1] = 3
    /\ \A k \in 1..3 : discord.posts[k].chunk = 0

\* The second attempt of a payload succeeded and the next chunk was posted.
C23_WitnessSuccess ==
    /\ Len(discord.posts) = 3
    /\ discord.posts[1].status # 200 /\ discord.posts[2].status = 200
    /\ discord.posts[3].chunk = 1

\* The image markers of a line of content.
ImageMarkers ==
    {"[IMAGE_MEDIA:", "[IMAGE_FILE:", "[Saved to]", "Saved to:", "baocun weizhi",
     "tupian yi baocun"}
HasImageMarker(line) == line.marker \in ImageMarkers
NoImageMarker(line) == ~HasImageMarker(line)

\* C24: once send has gone through the lines of the content, the text it hands to
\* _split_message is the content without its image-marker lines: every image-marker
\* line gave one path to upload and is not in the text, every other line is in it.
C24_MarkersStripped ==
    discord.pc \in {"upload", "post", "sent"} /\ discord.lines # <<>> =>
        /\ Len(discord.image_paths) = Len(SelectSeq(discord.lines, HasImageMarker))
        /\ discord.content_parts = SelectSeq(discord.lines, NoImageMarker)

C26_MediaTurnProcessed ==
    [][(/\ pc = "idle" /\ inbound # <<>> /\ inbound' = Tail(inbound)
        /\ Head(inbound).media # <<>>)
          => pc' = "llm" /\ Published = <<>>]_vars

\* ------------------------------------------------- MCP
Connecting == { c \in McpCallers : agent.at[c] # "out" }
C28_StopEndsRun ==
    /\ [][/\ ~agent'.running => agent'.taken + agent'.polls <= 1
          /\ agent.returned => inbound' = inbound /\ pc' = "idle"]_vars
    /\ (~agent.running ~> agent.returned)

\* stop() was called during a turn, the turn was finished with its reply, and run()
\* returned with a message still queued.
C28_Witness ==
    /\ agent.returned
    /\ agent.taken = 0 /\ agent.polls = 0
    /\ outbound # <<>>
    /\ inbound # <<>>

\* stop() was called during the poll and run() returned after its timeout.
C28_WitnessPoll ==
    /\ agent.returned
    /\ agent.polls = 1

\* ------------------------------------------------- the RefMap
\* C29: the RefMap a successful snapshot leaves, by either strategy, has at most
\* max_nodes refs e1..eN, and the nth of each ref is the number of earlier refs of the
\* same snapshot with the same role and name.
C29_RefMapNumbering ==
    (/\ browser.last # <<>>
     /\ browser.last[1].call.action = "snapshot"
     /\ browser.last[1].result.succeeded)
        => /\ Len(browser.ref_map) <= max_nodes
           /\ \A i \in 1..Len(browser.ref_map) :
                 /\ InRefMap(browser.ref_map, Ref(i))
                 /\ browser.ref_map[i].nth =
                        Cardinality({ j \in 1..(i - 1) :
                            /\ browser.ref_map[j].role = browser.ref_map[i].role
                            /\ browser.ref_map[j].name = browser.ref_map[i].name })

\* ------------------------------------------------- text-to-ancestor
\* C30: a click by ref on an element with a name, on which every earlier strategy has
\* failed and for whose name the script finds an enclosing section.note-item or
\* [class*=note] element that can be clicked, succeeds with method closest-section.
C30_ClosestSection ==
    (/\ ClickedByRef
     /\ RefInfo(browser.ref_map, browser.last[1].call.ref).name # ""
     /\ browser.last[1].env.found
     /\ browser.last[1].env.works = {"closest-section"})
        => /\ browser.last[1].result.succeeded
           /\ browser.last[1].result.method = "closest-section"

\* ------------------------------------------------- click_with_retry
\* C31: on a connected client click_with_retry returns a result for every max_retries >= 0, after at most
\* max_retries click_by_ref attempts, the first successful one being the last; each
\* attempt after the first sees the page 300 further than the one before; and the
\* result returned is that of the last attempt.
C31_ClickWithRetry ==
    LET f == browser.retry
    IN browser.client = "connected" =>
       /\ f.pc # "raised"
       /\ Len(f.seen) <= f.max_retries
       /\ \A k \in 1..Len(f.results) : f.results[k].success => k = Len(f.results)
       /\ \A k \in 2..Len(f.seen) : f.seen[k] = f.seen[k - 1] + 300
       /\ f.pc = "returned" => f.result = <<f.results[Len(f.results)]>>

\* ------------------------------------------------- cursor and concurrent turns
\* The consolidation of session object id that awaits its provider.chat.
AwaitingOn(id) ==
    { i \in 1..Len(tasks) : tasks[i].st = "awaiting" /\ tasks[i].session = id }

\* C32: whenever the cursor of a session advances, the messages it passes are
\* messages the finishing consolidation was given: no message appended while the
\* consolidation awaited its LLM call falls below the cursor.
C32_CursorCoversInput ==
    [][\A id \in 1..Len(objs) :
          objs'[id].last_consolidated > objs[id].last_consolidated
          => \E i \in AwaitingOn(id) :
                LET passed == SubSeq(objs'[id].messages, objs[id].last_consolidated + 1,
                                     objs'[id].last_consolidated)
                IN /\ Len(passed) <= Len(tasks[i].old_messages)
                   /\ passed = SubSeq(tasks[i].old_messages, 1, Len(passed))]_vars

\* C33: the cursor of a session in the cache is never negative.
C33_CursorNeverNegative ==
    \A k \in Keys : cache[k] # 0 => objs[cache[k]].last_consolidated >= 0

\* The /new commands processed so far: each scheduled one archive consolidation.
ArchivesScheduled ==
    Cardinality({ i \in 1..Len(outbound) : outbound[i].content = NEW_SESSION_REPLY })

\* C34: with one archive consolidation and the window-triggered ones of a session,
\* a consolidation that replaces MEMORY computed its update from the content
\* MEMORY has at that moment: what it read before its LLM call has not been
\* replaced by another consolidation in the meantime.
C34_NoLostMemoryUpdate ==
    [][memory_md' # memory_md /\ ArchivesScheduled <= 1
       => \E i \in 1..Len(tasks) :
             /\ tasks[i].st = "awaiting"
             /\ tasks' = RemoveAt(tasks, i)
             /\ tasks[i].current_memory = memory_md]_vars

\* The messages the session of key k holds: those of the cached object, else of its file.
Held(k) ==
    IF cache[k] # 0 THEN objs[cache[k]].messages
    ELSE IF disk[k].exists THEN disk[k].messages ELSE <<>>

\* Task i is an archive consolidation and this step is one of its own.
ArchiveStep(i) ==
    /\ tasks[i].kind = "archive"
    /\ \/ tasks' = RemoveAt(tasks, i)
       \/ Len(tasks') = Len(tasks) /\ tasks'[i].st # tasks[i].st

\* C35: /new hands its archive consolidation the messages the session held before
\* the clear; the consolidation builds its prompt from exactly those, and none of
\* its steps changes a cached session, the cache or a session file.
C35_ArchiveFrame ==
    [][/\ Len(tasks') = Len(tasks) + 1 /\ tasks'[Len(tasks')].kind = "archive"
          => tasks'[Len(tasks')].archive = Held(tasks'[Len(tasks')].key)
       /\ \A i \in 1..Len(tasks) :
             ArchiveStep(i)
             => /\ tasks[i].st = "created"
                   => Len(tasks') = Len(tasks) /\ tasks'[i].old_messages = tasks[i].archive
                /\ cache' = cache
                /\ disk' = disk
                /\ \A k \in Keys : cache[k] # 0 => objs'[cache[k]] = objs[cache[k]]]_vars

\* An archive consolidation of a non-empty session awaits its LLM call while the live
\* session already holds the messages of a later turn.
C35_Witness ==
    \E i \in 1..Len(tasks), k \in Keys :
        /\ tasks[i].kind = "archive" /\ tasks[i].st = "awaiting"
        /\ tasks[i].key = k /\ tasks[i].old_messages # <<>>
        /\ cache[k] # 0 /\ objs[cache[k]].messages # <<>>

\* ------------------------------------------------- loop detection and process_direct
\* The calls of one turn and its final content: a loop is reported exactly when the
\* turn's own last three calls are the same, and then at once.
OwnCallsDecide(turn_calls, content) ==
    /\ \A i \in 3..Len(turn_calls) :
          (SameCall(turn_calls[i - 2], turn_calls[i - 1])
           /\ SameCall(turn_calls[i - 1], turn_calls[i]))
          => i = Len(turn_calls) /\ content # None /\ ContainsLoopDetected(content)
    /\ (content # None /\ ContainsLoopDetected(content))
          => /\ Len(turn_calls) >= 3
             /\ SameCall(turn_calls[Len(turn_calls) - 2], turn_calls[Len(turn_calls) - 1])
             /\ SameCall(turn_calls[Len(turn_calls) - 1], turn_calls[Len(turn_calls)])

\* C36: with a turn of process_direct running alongside a turn of run(), each turn's
\* loop detection follows from its own calls alone.
C36_DetectionPerTurn ==
    /\ OwnCallsDecide(calls, final_content)
    /\ OwnCallsDecide(direct.calls, direct.final_content)

\* ------------------------------------------------- a turn that ends with an exception
Apologies == {ERROR_PREFIX \o PROVIDER_ERROR, ERROR_PREFIX \o LIST_HAS_NO_LOWER}

\* tools.execute of a session tool call returns.
SessionToolReturns == pc = "tool" /\ response.tool_calls[tc_idx].name = "session"

\* The steps a turn of run() that ends with an exception is made of: its start, its
\* steps other than a regular end, and the step that raises.
FailedTurnStep ==
    \/ pc = "idle" /\ pc' # "idle"
    \/ pc # "idle" /\ ~(TurnEnds /\ ~RaiseStep)
    \/ /\ pc = "idle" /\ pc' = "idle" /\ Len(outbound') > Len(outbound)
       /\ outbound'[Len(outbound')].content \in Apologies

Replies == SelectSeq(Published, LAMBDA m : ~IsProgress(m))

\* tools.execute of a message tool call returns: the tool has published its message.
MessageToolReturns == pc = "tool" /\ response.tool_calls[tc_idx].name = "message"

\* The step in which run() is done with the inbound message it dequeued.
HandlerEnds == pc' = "idle" /\ (pc # "idle" \/ inbound' # inbound)

\* C38: run() dequeues an inbound message only when it is done with the one before;
\* the step in which it is done with a message publishes, last, exactly one message
\* of run()'s own that is no progress message; and before that step the only
\* messages published that are no progress messages are those of the message tool.
C38_OneReplyPerInbound ==
    [][/\ inbound' # inbound => pc = "idle" /\ inbound' = Tail(inbound)
       /\ Len(Replies) = (IF HandlerEnds THEN 1 ELSE 0)
                          + (IF MessageToolReturns /\ outbound' # outbound THEN 1 ELSE 0)
       /\ HandlerEnds => ~IsProgress(outbound'[Len(outbound')])]_vars

\* A turn whose reply was suppressed has ended with the empty placeholder, after the
\* message tool's own message.
C38_Witness ==
    /\ pc = "idle" /\ sent_in_turn /\ Len(outbound) >= 2
    /\ Last(outbound).content = "" /\ ~IsProgress(Last(outbound))
    /\ \E i \in 1..(Len(outbound) - 1) : outbound[i].content = SEND_MESSAGE.arguments[1][2]

\* ------------------------------------------------- session tool: delete
\* The session tool has deleted the session of the turn's conversation in this turn
\* and reported it.
DeletedInTurn ==
    /\ sess # 0
    /\ \E j \in 1..Len(messages) :
          /\ messages[j].role = "tool" /\ messages[j].content = RESULT_DELETED
          /\ \E i \in 1..Len(calls) :
                /\ calls[i].id = messages[j].tool_call_id
                /\ calls[i].arguments[2][2] = objs[sess].key

\* C39: the step that ends a turn in which the session tool deleted the turn's own
\* session and reported "[VERIFIED] Deleted session" does not write the messages
\* the session held before the delete back to the session file.
C39_DeleteSurvivesTurn ==
    [][(TurnEnds /\ ~RaiseStep /\ DeletedInTurn /\ objs[sess].messages # <<>>)
       => LET k == objs[sess].key
              before == objs[sess].messages
          IN ~(/\ disk'[k].exists
               /\ Len(disk'[k].messages) >= Len(before)
               /\ SubSeq(disk'[k].messages, 1, Len(before)) = before)]_vars

\* ------------------------------------------------- browser: a failed connection
\* C40: the tool never holds a client whose connection failed, and after an action
\* that needs the client, made while the browser is reachable, the tool's client is
\* connected.
C40_FreshConnection ==
    /\ browser.client # "unconnected"
    /\ (/\ browser.last # <<>>
        /\ browser.last[1].call.action \notin ManagementActions
        /\ browser.last[1].env.connect = "ok")
       => browser.client = "connected"

====
